---- MODULE Spec2Model ----
(***************************************************************************)
(* Subscription inference engine of financial-autopilot-backend:           *)
(* app/subscriptions.py (vendor normalisation, amount clustering, cadence, *)
(* scoring, recompute_subscriptions), the worker tasks that call it        *)
(* (app/worker/tasks.py) and the routes that enqueue them or ignore a      *)
(* subscription (app/routers).                                             *)
(*                                                                         *)
(* Conventions.                                                            *)
(*  - An optional value (Python None or a value) is a sequence of length   *)
(*    0 or 1: None == <<>>, Some(x) == <<x>>.                              *)
(*  - A string is the sequence of its lexical atoms: a word (a maximal run *)
(*    of characters that are neither whitespace nor separators), one       *)
(*    separator character, or one blank " ".  No two words are adjacent.   *)
(*    The empty string and a missing vendor are both <<>> (both falsy).    *)
(*  - A date is a day number; a timedelta is a difference of day numbers.  *)
(*  - A stored amount (a Numeric(12, 2) column, a Decimal) is an integer    *)
(*    number of thousandths of a currency unit: 9.99 is 9990.  The amounts *)
(*    the engine computes with are Python floats, see below.               *)
(*  - A per-field confidence of a Transaction is an integer number of      *)
(*    hundredths; the score of a Subscription is a Python float.           *)
(***************************************************************************)
EXTENDS Integers, Sequences, FiniteSets, TLC

None == <<>>
Some(x) == <<x>>
IsNone(o) == o = <<>>
Val(o) == o[1]

Abs(x) == IF x < 0 THEN -x ELSE x
Max2(a, b) == IF a >= b THEN a ELSE b
Min2(a, b) == IF a <= b THEN a ELSE b

Range(s) == {s[i] : i \in 1..Len(s)}
Prefix(s, n) == SubSeq(s, 1, Min2(n, Len(s)))

RECURSIVE Flatten(_)
Flatten(ss) == IF ss = <<>> THEN <<>> ELSE Head(ss) \o Flatten(Tail(ss))

(***************************************************************************)
(* Binary floating point (Python float, IEEE 754 double, round to nearest, *)
(* ties to even).  A natural number is the sequence of its digits in base  *)
(* 2^15, least significant first, without leading zeros (0 is <<>>).  A    *)
(* float is [neg, m, e], of value (-1)^neg * m * 2^e with m a natural of   *)
(* exactly 53 bits, or m = <<>>, e = 0 for 0.0.                            *)
(***************************************************************************)
LimbBits == 15
MantissaBits == 53

RECURSIVE Pow2Int(_)
Pow2Int(k) == IF k = 0 THEN 1 ELSE 2 * Pow2Int(k - 1)

Base == Pow2Int(LimbBits)

RECURSIVE BitLenInt(_)
BitLenInt(n) == IF n = 0 THEN 0 ELSE 1 + BitLenInt(n \div 2)

RECURSIVE Trim(_)
Trim(a) == IF a # <<>> /\ a[Len(a)] = 0 THEN Trim(SubSeq(a, 1, Len(a) - 1)) ELSE a

RECURSIVE BigOfInt(_)
BigOfInt(n) == IF n = 0 THEN <<>> ELSE <<n % Base>> \o BigOfInt(n \div Base)

RECURSIVE BigToInt(_)
BigToInt(a) == IF a = <<>> THEN 0 ELSE Head(a) + Base * BigToInt(Tail(a))

BigBitLen(a) == IF a = <<>> THEN 0 ELSE LimbBits * (Len(a) - 1) + BitLenInt(a[Len(a)])

RECURSIVE BigAddC(_, _, _)
BigAddC(a, b, c) ==
    IF a = <<>> /\ b = <<>> THEN (IF c = 0 THEN <<>> ELSE <<c>>)
    ELSE LET x == IF a = <<>> THEN 0 ELSE Head(a)
             y == IF b = <<>> THEN 0 ELSE Head(b)
             s == x + y + c
         IN  <<s % Base>> \o BigAddC(IF a = <<>> THEN <<>> ELSE Tail(a),
                                     IF b = <<>> THEN <<>> ELSE Tail(b), s \div Base)

BigAdd(a, b) == BigAddC(a, b, 0)

\* a - b - c for a >= b + c, digits not trimmed
RECURSIVE BigSubB(_, _, _)
BigSubB(a, b, c) ==
    IF a = <<>> THEN <<>>
    ELSE LET y == IF b = <<>> THEN 0 ELSE Head(b)
             d == Head(a) - y - c
         IN  <<IF d < 0 THEN d + Base ELSE d>>
             \o BigSubB(Tail(a), IF b = <<>> THEN <<>> ELSE Tail(b), IF d < 0 THEN 1 ELSE 0)

BigSub(a, b) == Trim(BigSubB(a, b, 0))

\* -1, 0 or 1
RECURSIVE BigCmp(_, _)
BigCmp(a, b) ==
    IF Len(a) # Len(b) THEN (IF Len(a) < Len(b) THEN -1 ELSE 1)
    ELSE IF a = <<>> THEN 0
    ELSE IF a[Len(a)] # b[Len(b)] THEN (IF a[Len(a)] < b[Len(b)] THEN -1 ELSE 1)
    ELSE BigCmp(Trim(SubSeq(a, 1, Len(a) - 1)), Trim(SubSeq(b, 1, Len(b) - 1)))

\* a * k + c for k < Base
RECURSIVE BigMulSmallC(_, _, _)
BigMulSmallC(a, k, c) ==
    IF a = <<>> THEN (IF c = 0 THEN <<>> ELSE <<c>>)
    ELSE LET p == Head(a) * k + c
         IN  <<p % Base>> \o BigMulSmallC(Tail(a), k, p \div Base)

BigMulSmall(a, k) == IF k = 0 THEN <<>> ELSE BigMulSmallC(a, k, 0)

RECURSIVE BigMul(_, _)
BigMul(a, b) ==
    IF a = <<>> \/ b = <<>> THEN <<>>
    ELSE LET rest == BigMul(a, Tail(b))
         IN  BigAdd(BigMulSmall(a, Head(b)), IF rest = <<>> THEN <<>> ELSE <<0>> \o rest)

\* [q, r]: a = q * k + r for 0 < k <= Base, q not trimmed
RECURSIVE BigDivModSmall(_, _)
BigDivModSmall(a, k) ==
    IF a = <<>> THEN [q |-> <<>>, r |-> 0]
    ELSE LET hi == BigDivModSmall(Tail(a), k)
             cur == hi.r * Base + Head(a)
         IN  [q |-> <<cur \div k>> \o hi.q, r |-> cur % k]

RECURSIVE Zeros(_)
Zeros(n) == IF n = 0 THEN <<>> ELSE <<0>> \o Zeros(n - 1)

\* a * 2^n
BigShl(a, n) ==
    IF a = <<>> THEN <<>>
    ELSE Zeros(n \div LimbBits) \o BigMulSmall(a, Pow2Int(n % LimbBits))

\* a div 2^n
BigShr(a, n) ==
    IF n \div LimbBits >= Len(a) THEN <<>>
    ELSE Trim(BigDivModSmall(SubSeq(a, (n \div LimbBits) + 1, Len(a)), Pow2Int(n % LimbBits)).q)

FZero == [neg |-> FALSE, m |-> <<>>, e |-> 0]

\* the float nearest to (-1)^neg * (m + x) * 2^e, ties to even, where 0 <= x < 1 and
\* x > 0 exactly when sticky; a sticky m has more than 54 bits
\* -1, 0, 1: the part of m below 2^n against the half 2^(n - 1), q being m div 2^n
HalfCmp(m, q, n) ==
    BigCmp(BigShl(BigSub(m, BigShl(q, n)), 1), BigShl(<<1>>, n))

\* q or q + 1: up above the half, to the even one on the half unless sticky
Nearest(q, c, sticky) ==
    IF c > 0 \/ (c = 0 /\ (sticky \/ Head(q) % 2 = 1)) THEN BigAdd(q, <<1>>) ELSE q

\* q of 53 bits, or 2^53 after a carry
Normal(neg, q, e) ==
    IF BigBitLen(q) > MantissaBits
    THEN [neg |-> neg, m |-> BigShr(q, 1), e |-> e + 1]
    ELSE [neg |-> neg, m |-> q, e |-> e]

\* m of more than 53 bits: its n low bits rounded off, q being m div 2^n
RoundOff(neg, m, e, sticky, n, q) ==
    Normal(neg, Nearest(q, HalfCmp(m, q, n), sticky), e + n)

\* m of len > 0 bits
FitMantissa(neg, m, e, sticky, len) ==
    IF len <= MantissaBits
    THEN [neg |-> neg, m |-> BigShl(m, MantissaBits - len), e |-> e - (MantissaBits - len)]
    ELSE RoundOff(neg, m, e, sticky, len - MantissaBits, BigShr(m, len - MantissaBits))

FRound(neg, m, e, sticky) ==
    IF BigBitLen(m) = 0 THEN FZero ELSE FitMantissa(neg, m, e, sticky, BigBitLen(m))

\* float(n) of an integer
FOfInt(n) == FRound(n < 0, BigOfInt(IF n < 0 THEN -n ELSE n), 0, FALSE)

\* the float nearest to c / d, for integers c and 0 < d <= Base: float(Decimal) and
\* the float literals of the source
RoundQuotient(neg, dm, e) ==
    FRound(neg, Trim(dm.q), e, dm.r # 0)

FOfRatio(c, d) ==
    RoundQuotient(c < 0, BigDivModSmall(BigShl(BigOfInt(IF c < 0 THEN -c ELSE c), 5 * LimbBits), d),
                  -(5 * LimbBits))

FNeg(x) == IF x.m = <<>> THEN x ELSE [x EXCEPT !.neg = ~x.neg]
FAbs(x) == [x EXCEPT !.neg = FALSE]

\* -1, 0, 1: x < y, x = y, x > y
FCmpAbs(x, y) ==
    IF x.m = <<>> \/ y.m = <<>> THEN (IF x.m = y.m THEN 0 ELSE IF x.m = <<>> THEN -1 ELSE 1)
    ELSE IF x.e # y.e THEN (IF x.e < y.e THEN -1 ELSE 1)
    ELSE BigCmp(x.m, y.m)

FCmp(x, y) ==
    IF x.neg # y.neg THEN (IF x.neg THEN -1 ELSE 1)
    ELSE IF x.neg THEN -FCmpAbs(x, y) ELSE FCmpAbs(x, y)

FLe(x, y) == FCmp(x, y) <= 0
FLt(x, y) == FCmp(x, y) < 0
FMax(x, y) == IF FLt(x, y) THEN y ELSE x

\* the difference of the magnitudes mx and my, c being their comparison, with the sign of
\* the larger
Difference(xneg, mx, yneg, my, c, e) ==
    IF c = 0 THEN FZero
    ELSE FRound(IF c > 0 THEN xneg ELSE yneg, IF c > 0 THEN BigSub(mx, my) ELSE BigSub(my, mx),
                e, FALSE)

\* (-1)^xneg * mx * 2^e + (-1)^yneg * my * 2^e
AddAligned(xneg, mx, yneg, my, e) ==
    IF xneg = yneg THEN FRound(xneg, BigAdd(mx, my), e, FALSE)
    ELSE Difference(xneg, mx, yneg, my, BigCmp(mx, my), e)

FAdd(x, y) ==
    IF x.m = <<>> THEN y
    ELSE IF y.m = <<>> THEN x
    ELSE AddAligned(x.neg, BigShl(x.m, x.e - Min2(x.e, y.e)),
                    y.neg, BigShl(y.m, y.e - Min2(x.e, y.e)), Min2(x.e, y.e))

FSub(x, y) == FAdd(x, FNeg(y))

FMul(x, y) ==
    IF x.m = <<>> \/ y.m = <<>> THEN FZero
    ELSE FRound(x.neg # y.neg, BigMul(x.m, y.m), x.e + y.e, FALSE)

\* x / float(n) for an integer 0 < n <= Base
FDivInt(x, n) ==
    IF x.m = <<>> THEN FZero
    ELSE RoundQuotient(x.neg, BigDivModSmall(BigShl(x.m, 2 * LimbBits), n), x.e - 2 * LimbBits)

\* the whole hundredths in |x|: floor(|x| * 100), for |x| * 100 < 2^31
FloorCents(x) ==
    BigToInt(IF x.e >= 0 THEN BigShl(BigMulSmall(x.m, 100), x.e)
             ELSE BigShr(BigMulSmall(x.m, 100), -x.e))


(***************************************************************************)
(* Vendor normalisation (subscriptions.py 16-46)                           *)
(***************************************************************************)
_NOISE_TOKENS ==
    {"payment", "payments", "purchase", "purchases", "receipt", "invoice", "order",
     "confirm", "confirmation", "subscription", "subs", "billing", "bill", "charges"}

\* the three non-ASCII separators are written by name
_SEPARATORS ==
    {"bullet", "middot", "|", "/", "\\", ",", ";", "emdash", "-", "_", ":", "(", ")", "[", "]", "{", "}", "*"}

Blank == " "

\* str.isdigit() on the words of the vocabulary
IsDigitWord(w) == w \in {"0", "1", "7", "42", "1234", "4242"}

\* str.lower() on one atom
LowerAtom(a) ==
    CASE a = "Netflix" -> "netflix"
      [] a = "NETFLIX" -> "netflix"
      [] a = "Spotify" -> "spotify"
      [] a = "SPOTIFY" -> "spotify"
      [] a = "Premium" -> "premium"
      [] a = "Hulu" -> "hulu"
      [] a = "Bill" -> "bill"
      [] a = "Payment" -> "payment"
      [] OTHER -> a

Lower(s) == [i \in 1..Len(s) |-> LowerAtom(s[i])]

RECURSIVE LStrip(_)
LStrip(s) == IF s # <<>> /\ Head(s) = Blank THEN LStrip(Tail(s)) ELSE s

RECURSIVE RStrip(_)
RStrip(s) ==
    IF s # <<>> /\ s[Len(s)] = Blank THEN RStrip(SubSeq(s, 1, Len(s) - 1)) ELSE s

Strip(s) == RStrip(LStrip(s))

\* s.replace(ch, " ") for every separator
ReplaceSeparators(s) ==
    [i \in 1..Len(s) |-> IF s[i] \in _SEPARATORS THEN Blank ELSE s[i]]

\* str.split(): the words, in order
Split(s) == SelectSeq(s, LAMBDA a : a # Blank)

RECURSIVE Join(_)
Join(parts) ==
    IF parts = <<>> THEN <<>>
    ELSE IF Len(parts) = 1 THEN parts
    ELSE <<Head(parts), Blank>> \o Join(Tail(parts))

RECURSIVE PopTrailingDigits(_)
PopTrailingDigits(parts) ==
    IF parts # <<>> /\ IsDigitWord(parts[Len(parts)])
    THEN PopTrailingDigits(SubSeq(parts, 1, Len(parts) - 1))
    ELSE parts

MaxKeyTokens == 6

_normalize_vendor(v) ==
    LET s0 == Lower(Strip(v)) IN
    IF s0 = <<>> THEN <<>>
    ELSE LET s == ReplaceSeparators(s0)
             parts == PopTrailingDigits(SelectSeq(Split(s), LAMBDA p : p \notin _NOISE_TOKENS))
             key == Strip(Join(Prefix(parts, MaxKeyTokens)))
         IN  IF key # <<>> THEN key ELSE s

(***************************************************************************)
(* Numeric helpers (subscriptions.py 49-65)                                *)
(***************************************************************************)
\* float(v) of a stored amount (a Decimal of thousandths), None for None
_amount_to_float(v) == IF IsNone(v) THEN None ELSE Some(FOfRatio(Val(v), 1000))

RECURSIVE InsertInt(_, _)
InsertInt(sorted, x) ==
    IF sorted = <<>> THEN <<x>>
    ELSE IF x < Head(sorted) THEN <<x>> \o sorted
    ELSE <<Head(sorted)>> \o InsertInt(Tail(sorted), x)

RECURSIVE SortInts(_)
SortInts(nums) ==
    IF nums = <<>> THEN <<>> ELSE InsertInt(SortInts(Tail(nums)), Head(nums))

RECURSIVE InsertFloat(_, _)
InsertFloat(sorted, x) ==
    IF sorted = <<>> THEN <<x>>
    ELSE IF FLt(x, Head(sorted)) THEN <<x>> \o sorted
    ELSE <<Head(sorted)>> \o InsertFloat(Tail(sorted), x)

\* sorted(nums) of floats
RECURSIVE SortFloats(_)
SortFloats(nums) ==
    IF nums = <<>> THEN <<>> ELSE InsertFloat(SortFloats(Tail(nums)), Head(nums))

\* nums: a sequence of floats; the mean of the middle two is a float sum and a float division
_median(nums) ==
    IF nums = <<>> THEN None
    ELSE LET s == SortFloats(nums)
             mid == Len(s) \div 2
         IN  IF Len(s) % 2 = 1 THEN Some(s[mid + 1])
             ELSE Some(FDivInt(FAdd(s[mid], s[mid + 1]), 2))

(***************************************************************************)
(* Transactions.  A Transaction row is a record                            *)
(*   [id, user_id, vendor, amount, currency, transaction_date,             *)
(*    is_subscription, trial_end_date, renewal_date, confidence]           *)
(* with vendor a string, amount/currency/dates optional, and confidence    *)
(* the record [amount, date] of the optional per-field confidences of the  *)
(* JSON column (a missing dictionary is both keys missing).                *)
(***************************************************************************)
_MIN_EVIDENCE_CONFIDENCE == 50

_meets_confidence(tx, key, minimum) ==
    LET value == IF key = "amount" THEN tx.confidence.amount ELSE tx.confidence.date IN
    IF IsNone(value) THEN TRUE ELSE Val(value) >= minimum

(***************************************************************************)
(* Amount clustering (subscriptions.py 86-137)                             *)
(***************************************************************************)
\* the defaults abs_tol = 1.0 and pct_tol = 0.05 (lines 89-90)
abs_tol == FOfInt(1)
pct_tol == FOfRatio(5, 100)

HasAmount(t) == ~IsNone(_amount_to_float(t.amount))

\* lines 96-97: the pairs (t, a) of the items that have an amount
WithAmount(items) ==
    LET pairs == [i \in 1..Len(items) |-> [t |-> items[i], a |-> _amount_to_float(items[i].amount)]]
    IN  [i \in 1..Len(SelectSeq(pairs, LAMBDA p : ~IsNone(p.a))) |->
            LET p == SelectSeq(pairs, LAMBDA q : ~IsNone(q.a))[i] IN [t |-> p.t, a |-> Val(p.a)]]

\* list.sort(key=amount) is stable: p goes after every pair with amount <= its own
RECURSIVE InsertByAmount(_, _)
InsertByAmount(sorted, p) ==
    IF sorted = <<>> THEN <<p>>
    ELSE IF FLt(p.a, Head(sorted).a) THEN <<p>> \o sorted
    ELSE <<Head(sorted)>> \o InsertByAmount(Tail(sorted), p)

RECURSIVE SortByAmountUpTo(_, _)
SortByAmountUpTo(pairs, n) ==
    IF n = 0 THEN <<>> ELSE InsertByAmount(SortByAmountUpTo(pairs, n - 1), pairs[n])

SortByAmount(pairs) == SortByAmountUpTo(pairs, Len(pairs))

\* a faulty variant: every amount joins the open cluster
WithinAnyTolerance(a, cur_center) ==
    TRUE

\* lines 115-116: abs(a - cur_center) <= max(abs_tol, abs(cur_center) * pct_tol), in floats
WithinTolerance(a, cur_center) ==
    FLe(FAbs(FSub(a, cur_center)), FMax(abs_tol, FMul(FAbs(cur_center), pct_tol)))

\* line 119, the running mean: (cur_center * (len(cur) - 1) + a) / len(cur), cur holding a already
RunningMean(cur_center, a, len) ==
    FDivInt(FAdd(FMul(cur_center, FOfInt(len - 1)), a), len)

\* the loop of lines 109-126: cur is the open cluster, cur_center its centre (unused while cur is empty)
RECURSIVE ClusterWalk(_, _, _, _)
ClusterWalk(rest, clusters, cur, cur_center) ==
    IF rest = <<>> THEN (IF cur # <<>> THEN Append(clusters, cur) ELSE clusters)
    ELSE LET t == Head(rest).t
             a == Head(rest).a
         IN  IF cur = <<>> THEN ClusterWalk(Tail(rest), clusters, <<t>>, a)
             ELSE IF WithinTolerance(a, cur_center)
                  THEN ClusterWalk(Tail(rest), clusters, Append(cur, t),
                                   RunningMean(cur_center, a, Len(cur) + 1))
                  ELSE ClusterWalk(Tail(rest), Append(clusters, cur), <<t>>, a)

\* a faulty variant: the first cluster, whatever its length
FirstIndex(clusters) ==
    1

\* max(clusters, key=len): the first cluster of maximal length
LargestIndex(clusters) ==
    CHOOSE i \in 1..Len(clusters) :
        /\ \A j \in 1..Len(clusters) : Len(clusters[j]) <= Len(clusters[i])
        /\ \A j \in 1..(i - 1) : Len(clusters[j]) < Len(clusters[i])

_cluster_by_amount(items) ==
    LET with_amount == SortByAmount(WithAmount(items))
        no_amount == SelectSeq(items, LAMBDA t : ~HasAmount(t))
    IN  IF with_amount = <<>> THEN <<items>>
        ELSE LET clusters == ClusterWalk(with_amount, <<>>, <<>>, FZero) IN
             IF no_amount = <<>> THEN clusters
             ELSE LET k == LargestIndex(clusters) IN
                  [clusters EXCEPT ![k] = @ \o no_amount]

(***************************************************************************)
(* Inference helpers (subscriptions.py 144-211)                            *)
(***************************************************************************)
\* Counter(names).most_common(1): the most frequent raw vendor, the first one met on a tie
_pick_display_vendor(items) ==
    LET names == SelectSeq([i \in 1..Len(items) |-> items[i].vendor], LAMBDA v : v # <<>>)
        Count(v) == Cardinality({i \in 1..Len(names) : names[i] = v})
        First(v) == CHOOSE i \in 1..Len(names) :
                        names[i] = v /\ \A j \in 1..(i - 1) : names[j] # v
    IN  IF names = <<>> THEN None
        ELSE Some(CHOOSE v \in Range(names) :
                 \A w \in Range(names) :
                     \/ Count(w) < Count(v)
                     \/ (Count(w) = Count(v) /\ First(v) <= First(w)))

RECURSIVE SetToSortedSeq(_)
SetToSortedSeq(S) ==
    IF S = {} THEN <<>>
    ELSE LET m == CHOOSE x \in S : \A y \in S : x <= y
         IN  <<m>> \o SetToSortedSeq(S \ {m})

_date_list(items) ==
    SetToSortedSeq({Val(items[i].transaction_date) :
                      i \in {j \in 1..Len(items) : ~IsNone(items[j].transaction_date)}})

\* the positive day gaps between consecutive dates
Gaps(dates) ==
    SelectSeq([i \in 1..(Len(dates) - 1) |-> dates[i + 1] - dates[i]], LAMBDA g : g > 0)

_median_gap_days(dates) ==
    IF Len(dates) < 2 THEN None
    ELSE LET gaps == Gaps(dates) IN
         IF gaps = <<>> THEN None
         ELSE Some(SortInts(gaps)[(Len(gaps) \div 2) + 1])

_gap_variability_days(dates, median_gap) ==
    IF Len(dates) < 3 \/ median_gap = 0 THEN None
    ELSE LET gaps == Gaps(dates) IN
         IF gaps = <<>> THEN None
         ELSE LET dev == [i \in 1..Len(gaps) |-> Abs(gaps[i] - median_gap)]
              IN  Some(SortInts(dev)[(Len(dev) \div 2) + 1])

\* a faulty variant: the threshold rounded up
GapSkippedCyclesRoundedUp(dates, median_gap) ==
    IF Len(dates) < 2 \/ median_gap = 0 THEN 0
    ELSE LET gaps == Gaps(dates)
             threshold == (median_gap * 3 + 1) \div 2
         IN  Cardinality({i \in 1..Len(gaps) : gaps[i] > threshold})

\* lines 176-184; int(median_gap * 1.5) truncates
_gap_skipped_cycles(dates, median_gap) ==
    IF Len(dates) < 2 \/ median_gap = 0 THEN 0
    ELSE LET gaps == Gaps(dates)
             threshold == (median_gap * 3) \div 2
         IN  Cardinality({i \in 1..Len(gaps) : gaps[i] > threshold})

\* amounts: floats; the upper median of the float distances abs(a - med)
_amount_variability(amounts) ==
    IF Len(amounts) < 2 THEN None
    ELSE LET med == Val(_median(amounts))
             dev == [i \in 1..Len(amounts) |-> FAbs(FSub(amounts[i], med))]
         IN  Some(SortFloats(dev)[(Len(dev) \div 2) + 1])

RollLimit == 24

RECURSIVE RollLoop(_, _, _, _)
RollLoop(d, gap_days, today, i) ==
    IF i = RollLimit THEN d
    ELSE IF d >= today THEN d
    ELSE RollLoop(d + gap_days, gap_days, today, i + 1)

\* a faulty variant: the projection starts one cycle late
RollForwardFromNext(date_val, gap_days, today) ==
    IF gap_days = 0 THEN None ELSE Some(RollLoop(date_val + gap_days, gap_days, today, 0))

_roll_forward(date_val, gap_days, today) ==
    IF gap_days = 0 THEN None ELSE Some(RollLoop(date_val, gap_days, today, 0))

(***************************************************************************)
(* Confidence scoring (subscriptions.py 214-274).  A reason is a pair      *)
(* <<text, number>>, the number being the one the message prints (0 when   *)
(* it prints none).                                                        *)
(***************************************************************************)
\* Python truth of an optional integer: neither None nor 0
Truthy(o) == ~IsNone(o) /\ Val(o) # 0

\* a faulty variant: the sum of the factors as it is
Unclamped(score) ==
    score

\* line 273: max(0.0, min(1.0, score))
Clamp(score) ==
    FMax(FZero, IF FLt(FOfInt(1), score) THEN FOfInt(1) ELSE score)

\* score += x for each x of incs, in their order
RECURSIVE AddAll(_, _)
AddAll(score, incs) ==
    IF incs = <<>> THEN score ELSE AddAll(FAdd(score, Head(incs)), Tail(incs))

\* [score, reasons]; a factor is the float literal of its hundredths
_confidence_and_reasons(dates, median_gap, variability, amount_variability, skipped_cycles, flagged_count, last_date, amount_median) ==
    LET n == Len(dates)
        Lit(hundredths) == FOfRatio(hundredths, 100)
        c1 == IF n >= 3 THEN [incs |-> <<Lit(45)>>, reasons |-> <<<<"Found n charges for this vendor.", n>>>>]
              ELSE IF n = 2 THEN [incs |-> <<Lit(25)>>, reasons |-> <<<<"Found 2 charges for this vendor.", 0>>>>]
              ELSE [incs |-> <<>>, reasons |-> <<<<"Only 1 charge found (lower confidence).", 0>>>>]
        c2 == IF ~Truthy(median_gap) THEN [incs |-> <<>>, reasons |-> <<>>]
              ELSE LET base == <<<<"Median interval between charges is ~n days.", Val(median_gap)>>>> IN
                   IF IsNone(variability) THEN [incs |-> <<Lit(15)>>, reasons |-> base]
                   ELSE IF Val(variability) <= 3
                        THEN [incs |-> <<Lit(15), Lit(15)>>,
                              reasons |-> base \o <<<<"Charge interval is consistent (low variance).", 0>>>>]
                   ELSE IF Val(variability) <= 7
                        THEN [incs |-> <<Lit(15), Lit(8)>>,
                              reasons |-> base \o <<<<"Charge interval is moderately consistent.", 0>>>>]
                   ELSE [incs |-> <<Lit(15)>>,
                         reasons |-> base \o <<<<"Charge interval varies a lot (lower confidence).", 0>>>>]
        c3 == IF flagged_count > 0
              THEN [incs |-> <<Lit(15)>>,
                    reasons |-> <<<<"At least one email/transaction was flagged as subscription/trial/renewal.", 0>>>>]
              ELSE [incs |-> <<>>, reasons |-> <<>>]
        c4 == IF ~IsNone(last_date)
              THEN [incs |-> <<Lit(10)>>, reasons |-> <<<<"Most recent charge on date.", Val(last_date)>>>>]
              ELSE [incs |-> <<>>, reasons |-> <<>>]
        c5 == IF IsNone(amount_median) THEN [incs |-> <<>>, reasons |-> <<>>]
              ELSE LET base == <<<<"Charge amount is available.", 0>>>> IN
                   IF IsNone(amount_variability) THEN [incs |-> <<Lit(5)>>, reasons |-> base]
                   ELSE IF FLe(Val(amount_variability),
                               FMax(FOfRatio(1, 2), FMul(Val(amount_median), Lit(3))))
                        THEN [incs |-> <<Lit(5), Lit(5)>>,
                              reasons |-> base \o <<<<"Charge amounts are consistent.", 0>>>>]
                   ELSE [incs |-> <<Lit(5)>>,
                         reasons |-> base \o <<<<"Charge amounts vary across cycles.", 0>>>>]
        c6 == IF skipped_cycles > 0
              THEN <<<<"n longer-than-usual gap(s) in charges detected.", skipped_cycles>>>>
              ELSE <<>>
        score == AddAll(FZero, c1.incs \o c2.incs \o c3.incs \o c4.incs \o c5.incs)
    IN  [score |-> Clamp(score),
         reasons |-> c1.reasons \o c2.reasons \o c3.reasons \o c4.reasons \o c5.reasons \o c6]

(***************************************************************************)
(* The Subscription status enumeration (models.py 12-15)                   *)
(***************************************************************************)
SubscriptionStatus == {"active", "canceled", "ignored"}

\* getattr(SubscriptionStatus, name, None)
StatusMember(name) == IF name \in SubscriptionStatus THEN Some(name) ELSE None

(***************************************************************************)
(* One cluster of recompute_subscriptions (subscriptions.py 339-522): the  *)
(* Subscription row it adds to the session, or None when it is skipped.    *)
(***************************************************************************)
MinGapDays == 7
MaxGapDays == 400
MinActiveWindow == 45
MaxActiveWindow == 730
DefaultActiveWindow == 60
MaxEvidenceIds == 8
MaxReasons == 8

AmountsOf(items) ==
    LET all == [i \in 1..Len(items) |-> _amount_to_float(items[i].amount)]
        present == SelectSeq(all, LAMBDA a : ~IsNone(a))
    IN  [i \in 1..Len(present) |-> Val(present[i])]

IsFlagged(t) ==
    t.is_subscription \/ ~IsNone(t.trial_end_date) \/ ~IsNone(t.renewal_date)

\* next((d for d in sorted(S, reverse=True) if d >= now), None)
LatestFrom(S, now) ==
    LET future == {d \in S : d >= now} IN
    IF future = {} THEN None ELSE Some(CHOOSE d \in future : \A e \in future : e <= d)

\* sorted(items, key=transaction_date, reverse=True): stable, so equal dates keep their order
RECURSIVE InsertByDateDesc(_, _)
InsertByDateDesc(sorted, t) ==
    IF sorted = <<>> THEN <<t>>
    ELSE IF Val(t.transaction_date) > Val(Head(sorted).transaction_date) THEN <<t>> \o sorted
    ELSE <<Head(sorted)>> \o InsertByDateDesc(Tail(sorted), t)

RECURSIVE SortByDateDescUpTo(_, _)
SortByDateDescUpTo(items, n) ==
    IF n = 0 THEN <<>> ELSE InsertByDateDesc(SortByDateDescUpTo(items, n - 1), items[n])

\* a faulty variant: the ids of the whole cluster
EvidenceIdsOfAll(cluster_items) ==
    LET recent == SortByDateDescUpTo(cluster_items, Len(cluster_items))
    IN  [i \in 1..Len(recent) |-> recent[i].id]

\* lines 461-470: the ids of the 8 most recent transactions of the cluster
EvidenceIds(cluster_items) ==
    LET recent == Prefix(SortByDateDescUpTo(cluster_items, Len(cluster_items)), MaxEvidenceIds)
    IN  [i \in 1..Len(recent) |-> recent[i].id]

\* line 346: the cluster was dismissed by the user
IsIgnoredCluster(vendor_key, amount_median, vendor_currency, ignored_keys) ==
    <<vendor_key, amount_median, vendor_currency>> \in ignored_keys

\* a faulty variant: a parsed amount is enough for a cluster with a single date
EvidenceGateAmountSuffices(ndates, median_gap, trial_evidence, renewal_evidence, concrete_evidence) ==
    IF ndates = 1 THEN concrete_evidence
    ELSE IF IsNone(median_gap) THEN concrete_evidence
    ELSE TRUE

\* lines 384-389: the evidence a cluster needs to go on
PassesEvidenceGate(ndates, median_gap, trial_evidence, renewal_evidence, concrete_evidence) ==
    IF ndates = 1 THEN trial_evidence \/ renewal_evidence
    ELSE IF IsNone(median_gap) THEN concrete_evidence
    ELSE TRUE

\* a faulty variant: a cluster without a next date goes on, flagged or not
NextDateGateOpen(next_renewal, flagged) ==
    TRUE

\* lines 418-421: without a next date only flagged clusters go on
PassesNextDateGate(next_renewal, flagged) ==
    ~(IsNone(next_renewal) /\ flagged = <<>>)

\* a faulty variant: canceled as soon as the window is reached
ChooseStatusAtWindow(trial_end, ndates, median_gap, now, last_date) ==
    LET active_window ==
            IF Truthy(median_gap)
            THEN Max2(MinActiveWindow, Min2(MaxActiveWindow, Val(median_gap) * 2))
            ELSE DefaultActiveWindow
    IN  IF ~IsNone(trial_end) /\ ndates <= 1
        THEN [status |-> "active", kind |-> "trial"]
        ELSE IF (now - last_date) >= active_window
        THEN [status |-> "canceled", kind |-> "inactive"]
        ELSE [status |-> "active", kind |-> "active"]

\* lines 423-443: [status, kind]
ChooseStatus(trial_end, ndates, median_gap, now, last_date) ==
    LET status_trial == StatusMember("trial")
        status_canceled == StatusMember("canceled")
        active_window ==
            IF Truthy(median_gap)
            THEN Max2(MinActiveWindow, Min2(MaxActiveWindow, Val(median_gap) * 2))
            ELSE DefaultActiveWindow
    IN  IF ~IsNone(trial_end) /\ ndates <= 1
        THEN [status |-> IF ~IsNone(status_trial) THEN Val(status_trial) ELSE "active",
              kind |-> "trial"]
        ELSE IF (now - last_date) > active_window
        THEN [status |-> IF ~IsNone(status_canceled) THEN Val(status_canceled) ELSE "active",
              kind |-> "inactive"]
        ELSE [status |-> "active", kind |-> "active"]

\* lines 445-459: the score and the reasons as the row keeps them
ScoreFields(scored) ==
    [confidence |-> scored.score, reasons |-> Prefix(scored.reasons, MaxReasons)]

\* lines 346-522, amount_median and amount_variability being those of the cluster
ClusterRow(user_id, vendor_key, vendor_currency, cluster_items, ignored_keys, now, amount_median, amount_variability) ==
    LET dates == _date_list(cluster_items)
        flagged == SelectSeq(cluster_items, IsFlagged)
        AnyItem(P(_)) == \E i \in 1..Len(cluster_items) : P(cluster_items[i])
        amount_evidence ==
            AnyItem(LAMBDA t : HasAmount(t) /\ _meets_confidence(t, "amount", _MIN_EVIDENCE_CONFIDENCE))
        trial_evidence ==
            AnyItem(LAMBDA t : ~IsNone(t.trial_end_date)
                               /\ _meets_confidence(t, "date", _MIN_EVIDENCE_CONFIDENCE))
        renewal_evidence ==
            AnyItem(LAMBDA t : ~IsNone(t.renewal_date)
                               /\ _meets_confidence(t, "date", _MIN_EVIDENCE_CONFIDENCE))
        concrete_evidence == amount_evidence \/ trial_evidence \/ renewal_evidence
        raw_gap == _median_gap_days(dates)
        median_gap == IF ~IsNone(raw_gap) /\ (Val(raw_gap) < MinGapDays \/ Val(raw_gap) > MaxGapDays)
                      THEN None ELSE raw_gap
        variability == IF Truthy(median_gap) THEN _gap_variability_days(dates, Val(median_gap)) ELSE None
        skipped_cycles == IF Truthy(median_gap) THEN _gap_skipped_cycles(dates, Val(median_gap)) ELSE 0
        last_date == dates[Len(dates)]
        explicit_renewal ==
            LatestFrom({Val(flagged[i].renewal_date) :
                          i \in {j \in 1..Len(flagged) : ~IsNone(flagged[j].renewal_date)}}, now)
        trial_end ==
            LatestFrom({Val(flagged[i].trial_end_date) :
                          i \in {j \in 1..Len(flagged) : ~IsNone(flagged[j].trial_end_date)}}, now)
        predicted_is_estimated == IsNone(explicit_renewal) /\ ~IsNone(median_gap)
        next_renewal ==
            IF predicted_is_estimated
            THEN _roll_forward(last_date + Val(median_gap), Val(median_gap), now)
            ELSE explicit_renewal
        chosen == ChooseStatus(trial_end, Len(dates), median_gap, now, last_date)
        picked == _pick_display_vendor(cluster_items)
        display_vendor == IF ~IsNone(picked) THEN Val(picked) ELSE vendor_key
        with_currency == SelectSeq(cluster_items, LAMBDA t : ~IsNone(t.currency))
        currency == IF with_currency = <<>> THEN None ELSE Head(with_currency).currency
    IN  IF IsIgnoredCluster(vendor_key, amount_median, vendor_currency, ignored_keys) THEN None
        ELSE IF dates = <<>> THEN None
        ELSE IF ~PassesEvidenceGate(Len(dates), median_gap, trial_evidence, renewal_evidence,
                                    concrete_evidence) THEN None
        ELSE IF ~PassesNextDateGate(next_renewal, flagged) THEN None
        ELSE Some([user_id |-> user_id,
                   vendor_name |-> display_vendor,
                   amount |-> amount_median,
                   currency |-> currency,
                   billing_cycle_days |-> median_gap,
                   last_charge_date |-> Some(last_date),
                   next_renewal_date |-> IF ~IsNone(next_renewal) THEN next_renewal ELSE trial_end,
                   trial_end_date |-> trial_end,
                   status |-> chosen.status,
                   meta |-> ScoreFields(_confidence_and_reasons(
                                dates, median_gap, variability, amount_variability,
                                skipped_cycles, Len(flagged), Some(last_date), amount_median))
                            @@
                            [kind |-> chosen.kind,
                             vendor_key |-> vendor_key,
                             count |-> Len(cluster_items),
                             flagged_count |-> Len(flagged),
                             median_gap_days |-> median_gap,
                             gap_variability_days |-> variability,
                             skipped_cycles |-> skipped_cycles,
                             amount_variability |-> amount_variability,
                             predicted_next_renewal_date |->
                                 IF predicted_is_estimated THEN next_renewal ELSE None,
                             predicted_is_estimated |-> predicted_is_estimated,
                             evidence_tx_ids |-> EvidenceIds(cluster_items)]])

\* line 445: _amount_variability(amounts) if amounts else None
AmountVariabilityOf(amounts) ==
    IF amounts # <<>> THEN _amount_variability(amounts) ELSE None

\* lines 339-345 and 445: the amounts of the cluster, their median and their variability
EvalCluster(user_id, vendor_key, vendor_currency, cluster_items, ignored_keys, now) ==
    ClusterRow(user_id, vendor_key, vendor_currency, cluster_items, ignored_keys, now,
               _median(AmountsOf(cluster_items)), AmountVariabilityOf(AmountsOf(cluster_items)))

(***************************************************************************)
(* The loop over vendor groups (subscriptions.py 313-321, 332-339) and the *)
(* keys of the ignored subscriptions (301-311).                            *)
(***************************************************************************)
GroupKeyOf(tx) == <<_normalize_vendor(tx.vendor), tx.currency>>

\* the keys of a dict filled in this order: each key once, at its first occurrence
RECURSIVE DistinctInOrder(_)
DistinctInOrder(keys) ==
    IF keys = <<>> THEN <<>>
    ELSE LET front == DistinctInOrder(SubSeq(keys, 1, Len(keys) - 1))
             last == keys[Len(keys)]
         IN  IF last \in Range(front) THEN front ELSE Append(front, last)

IgnoredKeys(ignored) ==
    {<<_normalize_vendor(s.vendor_name), _amount_to_float(s.amount), s.currency>> : s \in ignored}

\* lines 339-522: the rows of the clusters of one vendor group
ClusterRows(user_id, key, clusters, ignored_keys, now) ==
    Flatten([i \in 1..Len(clusters) |->
               EvalCluster(user_id, key[1], key[2], clusters[i], ignored_keys, now)])

\* lines 332-337: a group without a vendor key is passed over
GroupRows(user_id, grouped, key, ignored_keys, now) ==
    IF key[1] = <<>> THEN <<>>
    ELSE ClusterRows(user_id, key,
                     _cluster_by_amount(SelectSeq(grouped, LAMBDA tx : GroupKeyOf(tx) = key)),
                     ignored_keys, now)

\* the rows recompute adds to the session, in the order it adds them
RecomputeRows(user_id, txs_in_order, ignored_keys, now) ==
    LET grouped == SelectSeq(txs_in_order,
                             LAMBDA tx : tx.vendor # <<>> /\ ~IsNone(tx.transaction_date))
        keys == DistinctInOrder([i \in 1..Len(grouped) |-> GroupKeyOf(grouped[i])])
    IN  Flatten([k \in 1..Len(keys) |-> GroupRows(user_id, grouped, keys[k], ignored_keys, now)])

(***************************************************************************)
(* The database and the worker tasks.                                      *)
(*                                                                         *)
(* users, txs and subs are the committed tables (a user with the Google    *)
(* account, whose last_sync_at is the only trace a sync leaves on it: the  *)
(* sync_state the tasks assign is no column of GoogleAccount, models.py    *)
(* 37-54, and is stored nowhere).  emails_raw tells of each user whether   *)
(* the emails_raw table holds a row of the account: sync_user adds one     *)
(* with every email it indexes and nothing deletes one.  A worker task     *)
(* owns one session:                                                       *)
(* what it has read (txsnap, keys), the rows its DELETE has removed but    *)
(* not committed (delset; these rows are locked), and the rows it has      *)
(* added but not flushed (pending).  Statements run READ COMMITTED.        *)
(* call is one call of a function of the engine taken alone: its name, its *)
(* argument and what it returned.                                          *)
(*                                                                         *)
(* The transactions table is an input of the engine.  As the repository    *)
(* stands no task writes it: sync_user adds no Transaction (see            *)
(* NewTransaction) and reanalyze_transaction changes none (see             *)
(* ReanalyzeRun), so neither reaches its call of recompute_subscriptions.  *)
(* The rows come from outside (InsertTransactions), and the engine is      *)
(* entered by a call of recompute_subscriptions itself (RecomputeCall).    *)
(***************************************************************************)
VARIABLES users, txs, subs, nextTxId, nextSubId, last_sync_at, today, task, nruns, op, clean, idem, lastRun, call,
          emails_raw, audit

vars == <<users, txs, subs, nextTxId, nextSubId, last_sync_at, today, task, nruns, op, clean, idem, lastRun, call,
          emails_raw, audit>>

Users == {1, 2}
NumTasks == 2
\* task runs in a behaviour: with and without the per-user lock
MaxRuns == 3
MaxRunsExcl == 2
\* transactions of one user: in the specifications of tasks, of data and of evidence
MaxTxTasks == 1
MaxTx == 2
MaxTxGate == 2

TaskIds == 1..NumTasks

TxsOf(u) == {t \in txs : t.user_id = u}
SubsOf(u) == {s \in subs : s.user_id = u}
IgnoredOf(u) == {s \in SubsOf(u) : s.status = "ignored"}
NonIgnoredOf(u) == {s \in SubsOf(u) : s.status # "ignored"}

\* a float put into a Numeric(12, 2) column (models.py 131): the nearest hundredth, a tie
\* going away from zero.  The database rounds the shortest decimal that reads back as the
\* float, so the float reaches the next hundredth exactly when it is no less than the
\* float of the midpoint.  In thousandths.
Round2(amount) ==
    IF IsNone(amount) THEN None
    ELSE LET x == Val(amount)
             cents == FloorCents(x)
             c == IF FLe(FOfRatio(10 * cents + 5, 1000), FAbs(x)) THEN cents + 1 ELSE cents
         IN  Some(IF x.neg THEN -(10 * c) ELSE 10 * c)

\* the Subscription row as stored at commit; run is the task run that wrote it
StoreRow(row, id, run) ==
    [id |-> id, run |-> run] @@ [row EXCEPT !.amount = Round2(row.amount)]

StoreRows(rows, firstId, run) ==
    {StoreRow(rows[i], firstId + i - 1, run) : i \in 1..Len(rows)}

\* a row of the transactions table (models.py 92-120) with the fields e
StoredTransaction(id, user_id, e) ==
    [id |-> id, user_id |-> user_id] @@ e

\* tasks.py 587-840: the Transactions a turn of the loop of sync_user adds for a pending
\* email in which extraction would find the fields e.  The turn calls
\* rules_extract(full, text_plain=..., text_html=...) at line 595, and rules_extract
\* (extraction.py 97) takes no text_html: the TypeError is caught at line 825, the email
\* is logged as email_process_error and marked processed, and no Transaction is added
\* (the constructor call of 798-813, with a meta the model class does not map, is not
\* reached)
NewTransaction(id, user_id, e) ==
    {}

\* ORDER BY transaction_date DESC NULLS LAST: rows of equal date come in any order
RECURSIVE Perms(_)
Perms(S) ==
    IF S = {} THEN {<<>>}
    ELSE UNION {{<<x>> \o p : p \in Perms(S \ {x})} : x \in S}

DateDescNullsLast(seq) ==
    \A i \in 1..Len(seq) : \A j \in (i + 1)..Len(seq) :
        \/ IsNone(seq[j].transaction_date)
        \/ /\ ~IsNone(seq[i].transaction_date)
           /\ Val(seq[i].transaction_date) >= Val(seq[j].transaction_date)

\* a faulty variant: the SELECT without its filter on the user
SelectTransactionsOfAll(u) == {seq \in Perms(txs) : DateDescNullsLast(seq)}

\* the rows of S that may come first: no other row of S has to come before them
FirstByDate(S) ==
    {x \in S : \A y \in S :
        \/ IsNone(y.transaction_date)
        \/ /\ ~IsNone(x.transaction_date)
           /\ Val(x.transaction_date) >= Val(y.transaction_date)}

\* the permutations of S that are DateDescNullsLast, built from the front
RECURSIVE DateOrders(_)
DateOrders(S) ==
    IF S = {} THEN {<<>>}
    ELSE UNION {{<<x>> \o p : p \in DateOrders(S \ {x})} : x \in FirstByDate(S)}

\* subscriptions.py 290-299
SelectTransactions(u) == DateOrders(TxsOf(u))

\* faulty variants: the DELETE without its filter on the status, and no DELETE
DeleteAlsoIgnored(u) == {s.id : s \in SubsOf(u)}

DeleteNothing(u) == {}

\* subscriptions.py 325-328: the rows the DELETE statement matches
DeleteCandidates(u) == {s.id : s \in NonIgnoredOf(u)}

\* the pending emails of one run of sync_user, and the pages of its Gmail listing
MaxPending == 1
MaxPages == 2

\* page, todo and tx_created are the locals of sync_user: the pages of the Gmail listing
\* it has gone through, the pending emails its loop has still to take, and the
\* Transactions it has created
IdleTask ==
    [kind |-> "none", user |-> 0, txid |-> 0, pc |-> "idle", run |-> 0,
     page |-> 0, todo |-> 0, tx_created |-> 0,
     txsnap |-> <<>>, keys |-> {}, delset |-> {}, pending |-> <<>>, pre |-> {}]

Finished(t) == task[t].pc \in {"idle", "done", "failed"}
Running(t) == task[t].pc \notin {"idle", "queued", "done", "failed"}
RecomputeInFlight(t) == task[t].pc \in {"rec_keys", "rec_delete", "rec_wait", "rec_commit"}

\* rows locked by the uncommitted DELETE of another session
LockedByOthers(t) == UNION {task[o].delset : o \in TaskIds \ {t}}

NoCall == [fn |-> "none", arg |-> <<>>, out |-> <<>>]

\* the sync jobs of one user: how far POST /sync got with each (api), how far the
\* worker got (run), the AuditLog rows in the order of their ids, which is the order of
\* their INSERTs (a row is seen by other sessions once it is committed), how far a
\* GET /sync/status request got (get) with the id of the sync_queued row it has read
\* (last_queued, 0 for none), and what GET /sync/status said last
MaxJobs == 2
Jobs == 1..MaxJobs

NoAudit ==
    [api |-> [j \in Jobs |-> "none"], run |-> [j \in Jobs |-> "none"], logs |-> <<>>,
     get |-> "idle", last_queued |-> 0, report |-> "none"]

Op(name, u, t) == [name |-> name, user |-> u, task |-> t, pre |-> {}]

\* what idempotence compares: the fields of the non-ignored rows
Content(rows) ==
    {[vendor_name |-> r.vendor_name, amount |-> r.amount, currency |-> r.currency,
      status |-> r.status, billing_cycle_days |-> r.billing_cycle_days] : r \in rows}

InitWith(days) ==
    /\ users = Users
    /\ txs = {}
    /\ subs = {}
    /\ nextTxId = 1
    /\ nextSubId = 1
    /\ last_sync_at = [u \in Users |-> None]
    /\ today \in days
    /\ task = [t \in TaskIds |-> IdleTask]
    /\ nruns = 0
    /\ op = Op("init", 0, 0)
    /\ clean = [u \in Users |-> FALSE]
    /\ idem = [u \in Users |-> "none"]
    /\ lastRun = [u \in Users |-> 0]
    /\ call = NoCall
    /\ audit = NoAudit
    /\ emails_raw = [u \in Users |-> FALSE]

\* the per-user lock the engine asks of its caller: when asked for (excl), a worker
\* starts a task only while no other task of the same user runs
MayStart(t, excl) ==
    excl => \A o \in TaskIds \ {t} : ~(Running(o) /\ task[o].user = task[t].user)

\* POST /sync (routers/sync.py 16-46): 400 for a user without an account
start_sync(u, t) ==
    /\ u \in users
    /\ Finished(t)
    /\ task' = [task EXCEPT ![t] = [IdleTask EXCEPT !.kind = "sync", !.user = u, !.pc = "queued"]]
    /\ op' = Op("start_sync", u, t)
    /\ UNCHANGED <<call, emails_raw, audit, txs, subs, nextSubId, users, nextTxId, last_sync_at, today, nruns, clean, idem, lastRun>>

\* POST /transactions/{id}/reanalyze (routers/transactions.py 157-180)
reanalyze_request(u, t, id) ==
    /\ Finished(t)
    /\ \E tx \in TxsOf(u) : tx.id = id
    /\ task' = [task EXCEPT ![t] =
                   [IdleTask EXCEPT !.kind = "reanalyze", !.user = u, !.txid = id, !.pc = "queued"]]
    /\ op' = Op("reanalyze_request", u, t)
    /\ UNCHANGED <<call, emails_raw, audit, txs, subs, nextSubId, users, nextTxId, last_sync_at, today, nruns, clean, idem, lastRun>>

\* sync_user up to its first commit (tasks.py 429-448).  When the account is gone, the
\* user having deleted it since POST /sync, the task returns 'account not found'
\* (437-438).  Otherwise it assigns sync_state = "in_progress" and more (441-447), none
\* of them a column of GoogleAccount (models.py 37-54): the commit of 448 stores nothing
SyncBegin(t, excl, budget) ==
    /\ task[t].pc = "queued" /\ task[t].kind = "sync"
    /\ nruns < budget
    /\ MayStart(t, excl)
    /\ nruns' = nruns + 1
    /\ task' = [task EXCEPT ![t].pc = IF task[t].user \in users THEN "index" ELSE "done",
                            ![t].run = nruns + 1]
    /\ op' = Op("sync_begin", task[t].user, t)
    /\ UNCHANGED <<call, emails_raw, audit, users, txs, subs, nextTxId, nextSubId, last_sync_at, today, clean, idem, lastRun>>

\* one page of the Gmail listing, up to its commit (tasks.py 476-537, for the first
\* page from line 450).  The messages of the page that have no EmailIndex row get one
\* and an EmailRaw row (510-532); stored tells that there was such a message.  more
\* is the nextPageToken of the answer: the loop takes the next page.  The account is
\* read again after each commit (acct.refresh_token_enc, acct.id) and the new rows
\* refer to it, so the step is taken only while it exists
SyncIndexPage(t, stored, more) ==
    LET u == task[t].user IN
    /\ task[t].pc = "index"
    /\ u \in users
    /\ more => task[t].page + 1 < MaxPages
    /\ emails_raw' = [emails_raw EXCEPT ![u] = @ \/ stored]
    /\ task' = [task EXCEPT ![t].page = @ + 1,
                            ![t].pc = IF more THEN "index" ELSE "pending"]
    /\ op' = Op("sync_index", u, t)
    /\ UNCHANGED <<call, audit, users, txs, subs, nextTxId, nextSubId, last_sync_at, today, nruns, clean, idem, lastRun>>

\* the pending emails of the account are read (tasks.py 545-567): n of them
SyncLoadPending(t, n) ==
    LET u == task[t].user IN
    /\ task[t].pc = "pending"
    /\ u \in users
    /\ task' = [task EXCEPT ![t].pc = "process", ![t].todo = n, ![t].tx_created = 0]
    /\ op' = Op("sync_pending", u, t)
    /\ UNCHANGED <<call, emails_raw, audit, users, txs, subs, nextTxId, nextSubId, last_sync_at, today, nruns, clean, idem, lastRun>>

\* one turn of the loop of sync_user, on a pending email (tasks.py 569-840).  An email
\* that has a Transaction (existing_tx) is marked processed and the turn is over, with
\* no commit (572-585).  For any other email, in which extraction would find the fields
\* e, the turn adds the Transactions of NewTransaction: none, the turn ends in the
\* handler of 825-840, which logs the error, marks the email processed and commits
SyncProcessEmail(t, existing_tx, e) ==
    LET u == task[t].user
        rows == IF existing_tx THEN {} ELSE NewTransaction(nextTxId, u, e)
    IN  /\ task[t].pc = "process"
        /\ task[t].todo > 0
        /\ u \in users
        /\ existing_tx => TxsOf(u) # {}
        /\ txs' = txs \cup rows
        /\ nextTxId' = nextTxId + Cardinality(rows)
        /\ task' = [task EXCEPT ![t].todo = @ - 1,
                                ![t].tx_created = @ + Cardinality(rows)]
        /\ clean' = [clean EXCEPT ![u] = @ /\ rows = {}]
        /\ op' = Op(IF existing_tx THEN "sync_email_skipped" ELSE "sync_email_error", u, t)
        /\ UNCHANGED <<call, emails_raw, audit, users, subs, nextSubId, last_sync_at, today, nruns, idem, lastRun>>

\* the loop is over: the commit of line 843, and recompute only when a Transaction was
\* created (tasks.py 842-856)
SyncProcessed(t) ==
    LET u == task[t].user IN
    /\ task[t].pc = "process"
    /\ task[t].todo = 0
    /\ u \in users
    /\ task' = [task EXCEPT ![t].pc = IF task[t].tx_created > 0 THEN "rec_load" ELSE "finish"]
    /\ op' = Op("sync_processed", u, t)
    /\ UNCHANGED <<call, emails_raw, audit, users, txs, subs, nextTxId, nextSubId, last_sync_at, today, nruns, clean, idem, lastRun>>

\* an exception in sync_user after its first commit and before its last (tasks.py
\* 450-888: a call of Gmail fails, a commit fails, the account is gone).  The handler
\* (897-912) assigns sync_state = "failed", which is stored nowhere, commits the session
\* and raises again: the run ends failed, without recompute.  The commit of the handler
\* stores what the session holds: the rows of the emails of a page that were indexed
\* before a call of Gmail failed (stored), if the account is there still
SyncFail(t, stored) ==
    LET u == task[t].user IN
    /\ task[t].pc \in {"index", "pending", "process", "finish"}
    /\ stored => (task[t].pc = "index" /\ u \in users)
    /\ emails_raw' = [emails_raw EXCEPT ![u] = @ \/ stored]
    /\ task' = [task EXCEPT ![t].pc = "failed"]
    /\ op' = Op("sync_fail", u, t)
    /\ UNCHANGED <<call, audit, users, txs, subs, nextTxId, nextSubId, last_sync_at, today, nruns, clean, idem, lastRun>>

\* reanalyze_transaction (tasks.py 937-1033).  Without the Transaction (944-945) or
\* without its stored email (raw is FALSE, 955-956; there is one only if emails_raw holds
\* rows of the account) it returns an error.  With it, the call
\* rules_extract(message, text_plain=..., text_html=...) at line 964 raises the
\* TypeError of line 595; nothing catches it, the session is closed (1032-1033), the
\* Transaction stays as it was and recompute is not reached
ReanalyzeRun(t, raw, excl, budget) ==
    LET u == task[t].user IN
    /\ task[t].pc = "queued" /\ task[t].kind = "reanalyze"
    /\ raw => emails_raw[u]
    /\ nruns < budget
    /\ MayStart(t, excl)
    /\ nruns' = nruns + 1
    /\ task' = [task EXCEPT ![t].pc = IF raw /\ (\E tx \in TxsOf(u) : tx.id = task[t].txid)
                                       THEN "failed" ELSE "done",
                            ![t].run = nruns + 1]
    /\ op' = Op("reanalyze", u, t)
    /\ UNCHANGED <<call, emails_raw, audit, txs, subs, nextSubId, users, nextTxId, last_sync_at, today, clean, idem, lastRun>>

\* rows written to the transactions table from outside, with the fields es (models.py
\* 92-120; user_id is a foreign key).  quiet asks that no task of the user runs meanwhile
InsertTransactions(u, es, quiet) ==
    LET base == nextTxId - 1 IN
    /\ u \in users
    /\ es # <<>>
    /\ quiet => \A o \in TaskIds : ~(Running(o) /\ task[o].user = u)
    /\ txs' = txs \cup {StoredTransaction(base + i, u, es[i]) : i \in 1..Len(es)}
    /\ clean' = [clean EXCEPT ![u] = FALSE]
    /\ nextTxId' = nextTxId + Len(es)
    /\ op' = Op("insert", u, 0)
    /\ UNCHANGED <<call, emails_raw, audit, users, subs, nextSubId, last_sync_at, today, task, nruns, idem, lastRun>>

\* recompute_subscriptions(db, user_id=u) is called (subscriptions.py 277-288), in a
\* session of its own
RecomputeCall(t, u, excl, budget) ==
    /\ Finished(t)
    /\ nruns < budget
    /\ excl => \A o \in TaskIds \ {t} : ~(Running(o) /\ task[o].user = u)
    /\ nruns' = nruns + 1
    /\ task' = [task EXCEPT ![t] =
                   [IdleTask EXCEPT !.kind = "recompute", !.user = u, !.pc = "rec_load",
                                    !.run = nruns + 1]]
    /\ op' = Op("recompute", u, t)
    /\ UNCHANGED <<call, emails_raw, audit, txs, subs, nextSubId, users, nextTxId, last_sync_at, today, clean, idem, lastRun>>

\* recompute_subscriptions: the SELECT of the user's transactions (subscriptions.py
\* 288-299)
RecLoad(t, ord) ==
    LET u == task[t].user IN
    /\ task[t].pc = "rec_load"
    /\ ord \in SelectTransactions(u)
    /\ task' = [task EXCEPT ![t].pc = "rec_keys", ![t].txsnap = ord]
    /\ op' = Op("rec_load", u, t)
    /\ UNCHANGED <<call, emails_raw, audit, users, txs, subs, nextTxId, nextSubId, last_sync_at, today, nruns, clean, idem, lastRun>>

\* the SELECT of the user's ignored Subscriptions, a statement of its own, and the keys
\* made of them (subscriptions.py 301-321); other sessions may have committed since the
\* SELECT of the transactions
RecLoadIgnored(t) ==
    LET u == task[t].user IN
    /\ task[t].pc = "rec_keys"
    /\ task' = [task EXCEPT ![t].pc = "rec_delete",
                            ![t].keys = IgnoredKeys(IgnoredOf(u)),
                            ![t].pre = SubsOf(u)]
    /\ op' = Op("rec_keys", u, t)
    /\ UNCHANGED <<call, emails_raw, audit, txs, subs, nextSubId, users, nextTxId, last_sync_at, today, nruns, clean, idem, lastRun>>

\* the DELETE and the loop that adds the new rows (subscriptions.py 323-522); the
\* DELETE waits while a row it matches is locked by another session
RecDelete(t) ==
    LET u == task[t].user
        cand == DeleteCandidates(u)
    IN  /\ task[t].pc = "rec_delete"
        /\ IF cand \cap LockedByOthers(t) = {}
           THEN task' = [task EXCEPT ![t].pc = "rec_commit", ![t].delset = cand,
                                     ![t].pending = RecomputeRows(u, task[t].txsnap, task[t].keys, today)]
           ELSE task' = [task EXCEPT ![t].pc = "rec_wait", ![t].delset = cand]
        /\ op' = Op("rec_delete", u, t)
        /\ UNCHANGED <<call, emails_raw, audit, txs, subs, nextSubId, users, nextTxId, last_sync_at, today, nruns, clean, idem, lastRun>>

\* the waiting DELETE goes on once the locks are gone: it removes the rows it had
\* matched that still exist and still are not ignored
RecDeleteResume(t) ==
    LET u == task[t].user
    IN  /\ task[t].pc = "rec_wait"
        /\ task[t].delset \cap UNION {task[o].delset : o \in {x \in TaskIds \ {t} : task[x].pc # "rec_wait"}} = {}
        /\ task' = [task EXCEPT ![t].pc = "rec_commit",
                                ![t].delset = @ \cap DeleteCandidates(u),
                                ![t].pending = RecomputeRows(u, task[t].txsnap, task[t].keys, today)]
        /\ op' = Op("rec_delete", u, t)
        /\ UNCHANGED <<call, emails_raw, audit, txs, subs, nextSubId, users, nextTxId, last_sync_at, today, nruns, clean, idem, lastRun>>

\* db.commit() of recompute (subscriptions.py 524); sync_user goes on from there.  The
\* rows it inserts carry user_id, a foreign key: the user has to be there still
RecCommit(t) ==
    LET u == task[t].user
        kept == {s \in subs : s.id \notin task[t].delset}
        new == StoreRows(task[t].pending, nextSubId, task[t].run)
    IN  /\ task[t].pc = "rec_commit"
        /\ task[t].pending # <<>> => u \in users
        /\ subs' = kept \cup new
        /\ nextSubId' = nextSubId + Len(task[t].pending)
        /\ lastRun' = [lastRun EXCEPT ![u] = task[t].run]
        /\ idem' = [idem EXCEPT ![u] =
                       IF ~clean[u] THEN "none"
                       ELSE IF Content(new) = Content(NonIgnoredOf(u)) THEN "same" ELSE "diff"]
        /\ clean' = [clean EXCEPT ![u] = TRUE]
        /\ task' = [task EXCEPT ![t] =
                       [IdleTask EXCEPT !.kind = task[t].kind, !.user = u, !.run = task[t].run,
                                        !.pc = IF task[t].kind = "sync" THEN "finish" ELSE "done"]]
        /\ op' = [Op("rec_commit", u, t) EXCEPT !.pre = task[t].pre]
        /\ UNCHANGED <<call, emails_raw, audit, txs, users, nextTxId, last_sync_at, today, nruns>>

\* an exception inside recompute after the DELETE, when k rows had been added
\* (subscriptions.py 330-522); recompute catches nothing.  sync_user would catch it and
\* commit its session (tasks.py 897-912; the sync_state = "failed" it assigns is stored
\* nowhere), which inserts the k rows if the user is there still; any other caller is
\* left with a session it can only roll back
RecFail(t, k) ==
    LET u == task[t].user
        kept == {s \in subs : s.id \notin task[t].delset}
        new == StoreRows(Prefix(task[t].pending, k), nextSubId, task[t].run)
    IN  /\ task[t].pc = "rec_commit"
        /\ k \in 0..Len(task[t].pending)
        /\ IF task[t].kind = "sync" /\ (k = 0 \/ u \in users)
           THEN /\ subs' = kept \cup new
                /\ nextSubId' = nextSubId + k
                /\ lastRun' = [lastRun EXCEPT ![u] = task[t].run]
                /\ clean' = [clean EXCEPT ![u] = FALSE]
           ELSE UNCHANGED <<subs, nextSubId, lastRun, clean>>
        /\ task' = [task EXCEPT ![t] =
                       [IdleTask EXCEPT !.kind = task[t].kind, !.user = u, !.run = task[t].run,
                                        !.pc = "failed"]]
        /\ op' = [Op("rec_fail", u, t) EXCEPT !.pre = task[t].pre]
        /\ UNCHANGED <<call, emails_raw, audit, users, txs, nextTxId, last_sync_at, today, nruns, idem>>

\* the commit of recompute fails in the database (the user of its rows is gone, say):
\* the session is rolled back, and the handler of sync_user has nothing to store
RecCommitFail(t) ==
    LET u == task[t].user IN
    /\ task[t].pc = "rec_commit"
    /\ task' = [task EXCEPT ![t] =
                   [IdleTask EXCEPT !.kind = task[t].kind, !.user = u, !.run = task[t].run,
                                    !.pc = "failed"]]
    /\ op' = [Op("rec_commit_fail", u, t) EXCEPT !.pre = task[t].pre]
    /\ UNCHANGED <<call, emails_raw, audit, users, txs, subs, nextTxId, nextSubId, last_sync_at, today, nruns, clean, idem, lastRun>>

\* the end of sync_user (tasks.py 858-896): the commit stores last_sync_at on the
\* account, which has to be there still, and the sync_complete AuditLog row; the
\* sync_state = "completed" of line 861 is stored nowhere
SyncComplete(t) ==
    LET u == task[t].user IN
    /\ task[t].pc = "finish"
    /\ u \in users
    /\ last_sync_at' = [last_sync_at EXCEPT ![u] = Some(today)]
    /\ task' = [task EXCEPT ![t].pc = "done"]
    /\ op' = Op("sync_complete", u, t)
    /\ UNCHANGED <<call, emails_raw, audit, users, txs, subs, nextTxId, nextSubId, today, nruns, clean, idem, lastRun>>

\* POST /subscriptions/{id}/ignore (routers/subscriptions.py 426-442, the route read by
\* itself: line 215 of its module is indented wrongly); its UPDATE
\* waits while the row is locked by the uncommitted DELETE of a session that got past
\* its locks.  quiet asks that no task of the user runs meanwhile
ignore_subscription(u, id, quiet) ==
    /\ \E s \in SubsOf(u) :
          /\ s.id = id
          /\ subs' = (subs \ {s}) \cup {[s EXCEPT !.status = "ignored"]}
    /\ id \notin UNION {task[o].delset : o \in {x \in TaskIds : task[x].pc # "rec_wait"}}
    /\ quiet => \A o \in TaskIds : ~(Running(o) /\ task[o].user = u)
    /\ clean' = [clean EXCEPT ![u] = @ /\ subs' = subs]
    /\ op' = Op("ignore", u, 0)
    /\ UNCHANGED <<call, emails_raw, audit, users, txs, nextTxId, nextSubId, last_sync_at, today, task, nruns, idem, lastRun>>

\* DELETE /privacy/account (routers/privacy.py 39-45): db.delete(user) deletes, by the
\* cascades of models.py 31-34 and 55, the user's Transactions and Subscriptions, the
\* ignored ones too, and the Google account with its EmailIndex rows.  The rows of
\* emails_raw refer to the account too (alembic/versions/0002_email_raw.py 21) and no
\* cascade reaches them: while there is one, the DELETE of the account violates the
\* foreign key, the commit raises and nothing is deleted.  The DELETE of a Subscription
\* waits while the row is locked by the uncommitted DELETE of a recompute.  quiet asks
\* that no task of the user runs meanwhile
delete_account(u, quiet) ==
    /\ u \in users
    /\ {s.id : s \in SubsOf(u)} \cap UNION {task[o].delset : o \in {x \in TaskIds : task[x].pc # "rec_wait"}} = {}
    /\ quiet => \A o \in TaskIds : ~(Running(o) /\ task[o].user = u)
    /\ IF emails_raw[u]
       THEN /\ op' = Op("delete_account_failed", u, 0)
            /\ UNCHANGED <<users, txs, subs, last_sync_at, clean>>
       ELSE /\ users' = users \ {u}
            /\ txs' = txs \ TxsOf(u)
            /\ subs' = subs \ SubsOf(u)
            /\ last_sync_at' = [last_sync_at EXCEPT ![u] = None]
            /\ clean' = [clean EXCEPT ![u] = FALSE]
            /\ op' = Op("delete_account", u, 0)
    /\ UNCHANGED <<call, emails_raw, audit, nextTxId, nextSubId, today, task, nruns, idem, lastRun>>

(***************************************************************************)
(* The fields of a row of the transactions table (models.py 92-120), as    *)
(* bounded sets; the confidences are those the rules give (extraction.py   *)
(* 161) or lower ones.  Then the specifications.                           *)
(***************************************************************************)
USD == Some("USD")

\* extraction.py 161: the confidences of the rules, for an amount and a date found
RulesConfidence == [amount |-> Some(50), date |-> Some(60)]
\* a row whose date confidence is below _MIN_EVIDENCE_CONFIDENCE
LowDateConfidence == [amount |-> Some(90), date |-> Some(30)]

Extracted(v, a, d, sub, trial, renewal, conf) ==
    [vendor |-> v, amount |-> a, currency |-> USD, transaction_date |-> d,
     is_subscription |-> sub, trial_end_date |-> trial, renewal_date |-> renewal,
     confidence |-> conf]

SeqsUpTo(S, n) == UNION {[1..k -> S] : k \in 0..n}

\* one charge of one vendor, announcing its renewal
ExtractedTiers ==
    {Extracted(<<"Netflix">>, Some(a), Some(100), FALSE, None, Some(140), RulesConfidence) :
        a \in {9990}}

\* one vendor written two ways, at prices one cent apart and at a higher tier, each
\* charge announcing its renewal
ExtractedMonthly ==
    {Extracted(v, Some(a), Some(100), FALSE, None, Some(140), RulesConfidence) :
        v \in {<<"Netflix">>, <<"NETFLIX">>}, a \in {9990, 10000, 12990}}

\* one vendor, with or without amount, on days 3, 7 and 10 apart, with each kind of evidence
EvidenceProfiles ==
    {[sub |-> FALSE, trial |-> None, renewal |-> None, conf |-> RulesConfidence],
     [sub |-> TRUE, trial |-> None, renewal |-> None, conf |-> RulesConfidence],
     [sub |-> FALSE, trial |-> Some(110), renewal |-> None, conf |-> RulesConfidence],
     [sub |-> FALSE, trial |-> Some(110), renewal |-> None, conf |-> LowDateConfidence],
     [sub |-> FALSE, trial |-> Some(95), renewal |-> None, conf |-> RulesConfidence],
     [sub |-> FALSE, trial |-> None, renewal |-> Some(120), conf |-> RulesConfidence]}

ExtractedEvidence ==
    {Extracted(<<"Netflix">>, a, Some(d), p.sub, p.trial, p.renewal, p.conf) :
        a \in {None, Some(9990)}, d \in {90, 93, 100}, p \in EvidenceProfiles}

Room(u, max) == max - Cardinality(TxsOf(u))

\* every task, call and request of one user, with no lock around them
Next ==
    \/ \E t \in TaskIds : start_sync(1, t)
    \/ \E t \in TaskIds, id \in 1..MaxTxTasks : reanalyze_request(1, t, id)
    \/ \E t \in TaskIds : SyncBegin(t, FALSE, MaxRuns)
    \/ \E t \in TaskIds : \E stored, more \in BOOLEAN : SyncIndexPage(t, stored, more)
    \/ \E t \in TaskIds : \E n \in 0..MaxPending : SyncLoadPending(t, n)
    \/ \E t \in TaskIds : \E existing_tx \in BOOLEAN, e \in ExtractedTiers : SyncProcessEmail(t, existing_tx, e)
    \/ \E t \in TaskIds : SyncProcessed(t)
    \/ \E t \in TaskIds, raw \in BOOLEAN : ReanalyzeRun(t, raw, FALSE, MaxRuns)
    \/ \E es \in SeqsUpTo(ExtractedTiers, Room(1, MaxTxTasks)) : InsertTransactions(1, es, FALSE)
    \/ \E t \in TaskIds : RecomputeCall(t, 1, FALSE, MaxRuns)
    \/ \E t \in TaskIds : \E ord \in SelectTransactions(task[t].user) : RecLoad(t, ord)
    \/ \E t \in TaskIds : RecLoadIgnored(t)
    \/ \E t \in TaskIds : RecDelete(t)
    \/ \E t \in TaskIds : RecDeleteResume(t)
    \/ \E t \in TaskIds : RecCommit(t)
    \/ \E t \in TaskIds : \E k \in 0..MaxTxTasks : RecFail(t, k)
    \/ \E t \in TaskIds : RecCommitFail(t)
    \/ \E t \in TaskIds : \E stored \in BOOLEAN : SyncFail(t, stored)
    \/ \E t \in TaskIds : SyncComplete(t)
    \/ \E id \in 1..(MaxRuns * MaxTxTasks) : ignore_subscription(1, id, FALSE)
    \/ delete_account(1, FALSE)

Spec == InitWith({110}) /\ [][Next]_vars

\* the tasks, calls and requests of two users, under the per-user lock the engine asks
\* of its caller
NextExcl ==
    \/ \E u \in Users, t \in TaskIds : start_sync(u, t)
    \/ \E t \in TaskIds : SyncBegin(t, TRUE, MaxRunsExcl)
    \/ \E t \in TaskIds : \E stored, more \in BOOLEAN : SyncIndexPage(t, stored, more)
    \/ \E t \in TaskIds : \E n \in 0..MaxPending : SyncLoadPending(t, n)
    \/ \E t \in TaskIds : \E existing_tx \in BOOLEAN, e \in ExtractedTiers : SyncProcessEmail(t, existing_tx, e)
    \/ \E t \in TaskIds : SyncProcessed(t)
    \/ \E t \in TaskIds : \E stored \in BOOLEAN : SyncFail(t, stored)
    \/ \E t \in TaskIds : SyncComplete(t)
    \/ \E u \in Users : delete_account(u, TRUE)
    \/ \E u \in Users : \E es \in SeqsUpTo(ExtractedTiers, Room(u, MaxTxTasks)) : InsertTransactions(u, es, TRUE)
    \/ \E u \in Users, t \in TaskIds : RecomputeCall(t, u, TRUE, MaxRunsExcl)
    \/ \E t \in TaskIds : \E ord \in SelectTransactions(task[t].user) : RecLoad(t, ord)
    \/ \E t \in TaskIds : RecLoadIgnored(t)
    \/ \E t \in TaskIds : RecDelete(t)
    \/ \E t \in TaskIds : RecCommit(t)
    \/ \E t \in TaskIds : \E k \in 0..MaxTxTasks : RecFail(t, k)
    \/ \E t \in TaskIds : RecCommitFail(t)
    \/ \E u \in Users, id \in 1..(MaxRunsExcl * MaxTxTasks) : ignore_subscription(u, id, TRUE)

SpecExcl == InitWith({110}) /\ [][NextExcl]_vars

\* one user, one task or call at a time, no failures: recompute as a function of the data
NextData ==
    \/ start_sync(1, 1)
    \/ SyncBegin(1, TRUE, MaxRunsExcl)
    \/ \E stored, more \in BOOLEAN : SyncIndexPage(1, stored, more)
    \/ \E n \in 0..MaxPending : SyncLoadPending(1, n)
    \/ \E existing_tx \in BOOLEAN, e \in ExtractedMonthly : SyncProcessEmail(1, existing_tx, e)
    \/ SyncProcessed(1)
    \/ \E stored \in BOOLEAN : SyncFail(1, stored)
    \/ SyncComplete(1)
    \/ delete_account(1, TRUE)
    \/ \E es \in SeqsUpTo(ExtractedMonthly, Room(1, MaxTx)) : InsertTransactions(1, es, TRUE)
    \/ RecomputeCall(1, 1, TRUE, MaxRunsExcl)
    \/ \E ord \in SelectTransactions(1) : RecLoad(1, ord)
    \/ RecLoadIgnored(1)
    \/ RecDelete(1)
    \/ RecCommit(1)
    \/ \E id \in 1..(MaxRunsExcl * MaxTx) : ignore_subscription(1, id, TRUE)

SpecData == InitWith({135}) /\ [][NextData]_vars

\* one user, a transactions table of bounded size, and one recompute
NextGate ==
    \/ txs = {} /\ \E es \in SeqsUpTo(ExtractedEvidence, MaxTxGate) : InsertTransactions(1, es, TRUE)
    \/ nruns = 0 /\ RecomputeCall(1, 1, TRUE, MaxRunsExcl)
    \/ \E ord \in SelectTransactions(1) : RecLoad(1, ord)
    \/ RecLoadIgnored(1)
    \/ RecDelete(1)
    \/ RecCommit(1)

SpecGate == InitWith({105}) /\ [][NextGate]_vars

(***************************************************************************)
(* The claims.  op is the action that led to the state; after a commit or  *)
(* a failure of recompute op.pre is the user's committed Subscription set  *)
(* as recompute found it.                                                  *)
(***************************************************************************)
VendorKey(vendor_name) == _normalize_vendor(vendor_name)

SameIgnoreKey(s, g) ==
    /\ VendorKey(s.vendor_name) = VendorKey(g.vendor_name)
    /\ s.amount = g.amount
    /\ s.currency = g.currency

\* C1: after a recompute of a user commits, none of the user's non-ignored
\* Subscriptions has the vendor key, the amount (kept to 2 decimals) and the currency
\* of one of the user's ignored Subscriptions.  The code compares the ignored row's
\* stored amount with the cluster's unrounded median, so this fails (SpecData).
C1_NoDuplicateOfIgnored ==
    op.name = "rec_commit" =>
        \A s \in NonIgnoredOf(op.user) : \A g \in IgnoredOf(op.user) : ~SameIgnoreKey(s, g)

\* C2: no step of recompute assigns or clears the ignored status: every step but
\* the user's own requests (to ignore a Subscription, to delete the account) leaves
\* each user's ignored Subscriptions as they were, ids and fields, and no row
\* recompute adds has status ignored (Spec).
C2_IgnoredUntouched ==
    [][/\ op'.name \notin {"ignore", "delete_account"} => \A u \in Users : IgnoredOf(u)' = IgnoredOf(u)
       /\ \A t \in TaskIds : \A i \in 1..Len(task'[t].pending) :
              task'[t].pending[i].status # "ignored"]_vars

\* a recompute has committed for a user who had an ignored Subscription before it,
\* and that Subscription is still there
C2_Witness ==
    /\ op.name = "rec_commit"
    /\ \E g \in op.pre : g.status = "ignored" /\ g \in subs

\* C3: a recompute that commits with no change to the user's transactions or
\* ignored Subscriptions since the commit of the one before it leaves the same
\* non-ignored Subscriptions (vendor_name, amount, currency, status,
\* billing_cycle_days), whatever order the database returned equal-dated
\* transactions in.  The display vendor of a tie follows that order, so this fails
\* (SpecData).
C3_Idempotent ==
    \A u \in Users : idem[u] # "diff"

\* the transactions a row was inferred from
ClusterOf(s) == Range(s.meta.evidence_tx_ids)

\* C4: when a user's recomputes run one after another, every non-ignored
\* Subscription of the user was written by the user's latest recompute, and two of
\* them with the same vendor key and currency come from disjoint amount clusters, with
\* different amounts (SpecData).
C4_OnePerClusterFromLatestRun ==
    \A u \in Users :
        /\ \A s \in NonIgnoredOf(u) : s.run = lastRun[u]
        /\ \A s1, s2 \in NonIgnoredOf(u) :
               (s1 # s2 /\ s1.meta.vendor_key = s2.meta.vendor_key /\ s1.currency = s2.currency)
               => (ClusterOf(s1) \cap ClusterOf(s2) = {} /\ s1.amount # s2.amount)

\* a second recompute of a user has committed and left two Subscriptions of one vendor
C4_Witness ==
    /\ op.name = "rec_commit"
    /\ lastRun[op.user] >= 2
    /\ \E s1, s2 \in NonIgnoredOf(op.user) :
           s1 # s2 /\ s1.meta.vendor_key = s2.meta.vendor_key /\ s1.currency = s2.currency

\* rows without the id and the run the commit stamps on them
Unstamped(rows) == {[f \in DOMAIN r \ {"id", "run"} |-> r[f]] : r \in rows}

\* what a recompute of u alone leaves, from u's transactions and ignored rows
SequentialOutcomes(u) ==
    {Unstamped(StoreRows(RecomputeRows(u, ord, IgnoredKeys(IgnoredOf(u)), today), 1, 0)) :
        ord \in {seq \in Perms(TxsOf(u)) : DateDescNullsLast(seq)}}

\* C7: recomputes of different users are independent: a step taken for one user
\* leaves the Subscriptions and Transactions of every other user unchanged, and the
\* non-ignored Subscriptions a recompute of u commits are those a recompute of u run
\* alone on u's own transactions and ignored Subscriptions commits, whatever tasks of
\* other users run in between (SpecExcl).
C7_UsersIndependent ==
    /\ [](op.name = "rec_commit"
           => Unstamped(NonIgnoredOf(op.user)) \in SequentialOutcomes(op.user))
    /\ [][\A u \in Users :
              u # op'.user => (SubsOf(u)' = SubsOf(u) /\ TxsOf(u)' = TxsOf(u))]_vars

\* a recompute of one user has committed its rows while a recompute of another user
\* holds rows it has not committed yet
C7_Witness ==
    /\ op.name = "rec_commit"
    /\ NonIgnoredOf(op.user) # {}
    /\ \E t \in TaskIds :
           task[t].user # op.user /\ task[t].pc = "rec_commit" /\ task[t].pending # <<>>

\* the rows a recompute holds once its loop is over, and the transactions of its
\* snapshot a row was inferred from
HoldsRows(t) == task[t].pc = "rec_commit"

PendingRows(t) == Range(task[t].pending)

Members(t, r) == {x \in Range(task[t].txsnap) : x.id \in ClusterOf(r)}

DatesOf(M) == {Val(x.transaction_date) : x \in {y \in M : ~IsNone(y.transaction_date)}}

HasSignal(x) == ~IsNone(x.trial_end_date) \/ ~IsNone(x.renewal_date)

\* C8: for a user whose only transaction has a vendor, a date and a trial_end_date of
\* today + 5, recompute adds exactly one Subscription, with status trial,
\* next_renewal_date the trial end and predicted_is_estimated false.  The status
\* enumeration has no trial member, so the row is active, and a trial date of low
\* confidence gives no row: this fails (SpecGate).
C8_TrialScenario ==
    \A t \in TaskIds :
        (/\ HoldsRows(t)
         /\ Len(task[t].txsnap) = 1
         /\ task[t].txsnap[1].vendor # <<>>
         /\ ~IsNone(task[t].txsnap[1].transaction_date)
         /\ task[t].txsnap[1].trial_end_date = Some(today + 5))
        => /\ Len(task[t].pending) = 1
           /\ task[t].pending[1].status = "trial"
           /\ task[t].pending[1].next_renewal_date = Some(today + 5)
           /\ ~task[t].pending[1].meta.predicted_is_estimated

\* C9: a Subscription inferred from transactions of one single date has a member
\* with a trial_end_date or a renewal_date, and a snapshot of one unflagged
\* transaction gives no Subscription (SpecGate).
C9_SingleDateNeedsSignal ==
    \A t \in TaskIds :
        HoldsRows(t) =>
            /\ \A r \in PendingRows(t) :
                   Cardinality(DatesOf(Members(t, r))) = 1
                   => \E x \in Members(t, r) : HasSignal(x)
            /\ (Len(task[t].txsnap) = 1 /\ ~IsFlagged(task[t].txsnap[1]))
               => task[t].pending = <<>>

\* a recompute holds a Subscription inferred from two transactions of one date
C9_Witness ==
    \E t \in TaskIds :
        /\ HoldsRows(t)
        /\ \E r \in PendingRows(t) :
               Cardinality(Members(t, r)) = 2 /\ Cardinality(DatesOf(Members(t, r))) = 1

\* C10: a Subscription inferred from two or more dates without a usable cadence has
\* a member with an amount, a trial_end_date or a renewal_date; and a Subscription
\* with no renewal_date and no trial_end_date of today or later among its members and
\* no cadence has a flagged member (SpecGate).
C10_NoCadenceNeedsEvidence ==
    \A t \in TaskIds :
        HoldsRows(t) =>
            \A r \in PendingRows(t) :
                LET M == Members(t, r)
                    no_cadence == IsNone(r.billing_cycle_days)
                    future_renewal ==
                        \E x \in M : ~IsNone(x.renewal_date) /\ Val(x.renewal_date) >= today
                    future_trial ==
                        \E x \in M : ~IsNone(x.trial_end_date) /\ Val(x.trial_end_date) >= today
                IN  /\ (Cardinality(DatesOf(M)) >= 2 /\ no_cadence)
                       => \E x \in M : ~IsNone(x.amount) \/ HasSignal(x)
                    /\ (~future_renewal /\ ~future_trial /\ no_cadence)
                       => \E x \in M : IsFlagged(x)

\* a recompute holds a Subscription inferred from two dates too close for a cadence,
\* with no date to come
C10_Witness ==
    \E t \in TaskIds :
        /\ HoldsRows(t)
        /\ \E r \in PendingRows(t) :
               /\ Cardinality(DatesOf(Members(t, r))) >= 2
               /\ IsNone(r.billing_cycle_days)
               /\ IsNone(r.next_renewal_date)

(***************************************************************************)
(* Cadence, next date and status: a table of monthly charges of one vendor *)
(* and its recompute, on several days.                                     *)
(***************************************************************************)
MaxTxCadence == 4

\* charges a month apart, one ten days before the last and one 390 days before it
CadenceDates == {-290, 10, 40, 70, 90, 100}

\* days after the last charge: soon, at and past the active window, and years later
CadenceDays == {110, 160, 161, 860}

CadenceProfiles ==
    {[sub |-> FALSE, trial |-> None, renewal |-> None],
     [sub |-> FALSE, trial |-> Some(120), renewal |-> None],
     [sub |-> FALSE, trial |-> None, renewal |-> Some(125)]}

ExtractedCadence(d, p) ==
    Extracted(<<"Spotify", "*", "Premium">>, Some(11990), Some(d), p.sub, p.trial, p.renewal,
              RulesConfidence)

\* the tables of at most n charges, one a day at most, the oldest first
CadenceTables(n) ==
    UNION {LET ds == SetToSortedSeq(D) IN
           {[i \in 1..Len(ds) |-> ExtractedCadence(ds[i], f[ds[i]])] : f \in [D -> CadenceProfiles]} :
              D \in {E \in SUBSET CadenceDates : Cardinality(E) <= n}}

NextCadence ==
    \/ txs = {} /\ \E es \in CadenceTables(MaxTxCadence) : InsertTransactions(1, es, TRUE)
    \/ nruns = 0 /\ RecomputeCall(1, 1, TRUE, MaxRunsExcl)
    \/ \E ord \in SelectTransactions(1) : RecLoad(1, ord)
    \/ RecLoadIgnored(1)
    \/ RecDelete(1)
    \/ RecCommit(1)

SpecCadence == InitWith(CadenceDays) /\ [][NextCadence]_vars

MaxOf(S) == CHOOSE d \in S : \A e \in S : e <= d

\* the renewal and trial dates of today or later among the flagged members of a row
FutureRenewals(M) ==
    {Val(x.renewal_date) : x \in {y \in M : IsFlagged(y) /\ ~IsNone(y.renewal_date)
                                              /\ Val(y.renewal_date) >= today}}

FutureTrials(M) ==
    {Val(x.trial_end_date) : x \in {y \in M : IsFlagged(y) /\ ~IsNone(y.trial_end_date)
                                                /\ Val(y.trial_end_date) >= today}}

\* C11: the next_renewal_date of every Subscription recompute adds is the latest
\* renewal_date of today or later among its flagged transactions if there is one,
\* else the latest such trial_end_date if there is one, and the cadence projection
\* only when there is neither.  The code projects the cadence before it looks at the
\* trial date, so this fails (SpecCadence).
C11_NextDatePreference ==
    \A t \in TaskIds :
        HoldsRows(t) =>
            \A r \in PendingRows(t) :
                LET R == FutureRenewals(Members(t, r))
                    T == FutureTrials(Members(t, r))
                IN  /\ R # {} => r.next_renewal_date = Some(MaxOf(R))
                    /\ (R = {} /\ T # {}) => r.next_renewal_date = Some(MaxOf(T))
                    /\ r.meta.predicted_is_estimated => (R = {} /\ T = {})

\* C12: when the cadence projection is the next_renewal_date, it is the first of the
\* dates last_charge_date + k * median_gap_days, k >= 1, that is today or later,
\* however old the last charge.  The roll forward stops after 24 steps, so for an old
\* last charge the date is in the past: this fails (SpecCadence).
C12_ProjectionNotPast ==
    \A t \in TaskIds :
        HoldsRows(t) =>
            \A r \in PendingRows(t) :
                r.meta.predicted_is_estimated =>
                    LET last == Val(r.last_charge_date)
                        gap == Val(r.billing_cycle_days)
                        next == Val(r.next_renewal_date)
                    IN  /\ next >= today
                        /\ next - last >= gap
                        /\ (next - last) % gap = 0
                        /\ (next - gap >= today) => (next - gap = last)

\* C13: a Subscription recompute adds and does not classify as a trial is canceled
\* exactly when today - last_charge_date exceeds the window, and active otherwise;
\* the window is max(45, min(730, 2 * median_gap_days)) with a cadence and 60 without
\* (SpecCadence).
C13_CanceledPastWindow ==
    \A t \in TaskIds :
        HoldsRows(t) =>
            \A r \in PendingRows(t) :
                r.meta.kind # "trial" =>
                    LET last == MaxOf(DatesOf(Members(t, r)))
                        W == IF IsNone(r.billing_cycle_days) THEN 60
                             ELSE Max2(45, Min2(730, 2 * Val(r.billing_cycle_days)))
                    IN  /\ r.status \in {"active", "canceled"}
                        /\ (r.status = "canceled") <=> (today - last > W)

\* recompute holds a canceled Subscription whose last charge is one day past the
\* window of its cadence
C13_Witness ==
    \E t \in TaskIds :
        /\ HoldsRows(t)
        /\ \E r \in PendingRows(t) :
               /\ r.meta.kind # "trial"
               /\ r.status = "canceled"
               /\ ~IsNone(r.billing_cycle_days)
               /\ today - Val(r.last_charge_date) = 2 * Val(r.billing_cycle_days) + 1

\* the snapshot of t is four charges of Spotify*Premium at 11.99 in one currency,
\* 30 days apart, the last one 10 days before today
FourMonthlyCharges(t) ==
    LET snap == task[t].txsnap
        last == today - 10
    IN  /\ HoldsRows(t)
        /\ task[t].keys = {}
        /\ Len(snap) = 4
        /\ \A i \in 1..4 :
               /\ snap[i].vendor = <<"Spotify", "*", "Premium">>
               /\ snap[i].amount = Some(11990)
               /\ snap[i].currency = snap[1].currency
        /\ {snap[i].transaction_date : i \in 1..4}
               = {Some(last - 90), Some(last - 60), Some(last - 30), Some(last)}

\* one active Subscription, monthly, due 30 days after the last charge, confidence >= 0.7
OneMonthlySubscription(t) ==
    /\ Len(task[t].pending) = 1
    /\ task[t].pending[1].status = "active"
    /\ task[t].pending[1].billing_cycle_days = Some(30)
    /\ task[t].pending[1].next_renewal_date = Some(today - 10 + 30)
    /\ FLe(FOfRatio(7, 10), task[t].pending[1].meta.confidence)

\* C14 as stated: four such charges, whatever else the transactions carry, give that
\* one Subscription.  A charge that announces a renewal_date of today or later moves
\* the next_renewal_date to that date, so this fails (SpecCadence).
C14_AsStated ==
    \A t \in TaskIds : FourMonthlyCharges(t) => OneMonthlySubscription(t)

\* C14: for a user with exactly four transactions of vendor "Spotify*Premium", all of
\* amount 11.99 and one currency, dated 30 days apart, the last one 10 days before
\* today, none of them with a renewal_date of today or later, and no ignored
\* subscriptions, recompute adds exactly one Subscription, with status active,
\* billing_cycle_days 30, next_renewal_date the last charge + 30 days and confidence
\* >= 0.7 (SpecCadence).
C14_FourMonthlyCharges ==
    \A t \in TaskIds :
        (FourMonthlyCharges(t) /\ FutureRenewals(Range(task[t].txsnap)) = {})
        => OneMonthlySubscription(t)

\* recompute holds the rows for four such charges, one of them flagged with a trial date
C14_Witness ==
    \E t \in TaskIds :
        /\ FourMonthlyCharges(t)
        /\ FutureRenewals(Range(task[t].txsnap)) = {}
        /\ \E x \in Range(task[t].txsnap) : IsFlagged(x)
        /\ Len(task[t].pending) = 1

(***************************************************************************)
(* The amount clusterer taken alone, on the transactions of one vendor     *)
(* group: only their ids and amounts matter to it.                         *)
(***************************************************************************)
MaxClusterItems == 4

\* no amount, two prices 1.00 apart, a chain of prices 0.90 apart, and a higher tier
ClusterAmounts == {None, Some(1140), Some(2140), Some(9990), Some(10900), Some(11800), Some(12990)}

ClusterInputs ==
    {[i \in 1..Len(amts) |-> [id |-> i, amount |-> amts[i]]] :
        amts \in SeqsUpTo(ClusterAmounts, MaxClusterItems)}

EngineUnchanged ==
    UNCHANGED <<txs, subs, nextSubId, users, nextTxId, last_sync_at, today, task, nruns, op, clean, idem, lastRun>>

MachineUnchanged ==
    EngineUnchanged /\ UNCHANGED <<emails_raw, audit>>

CallClusterByAmount(items) ==
    /\ call' = [fn |-> "_cluster_by_amount", arg |-> items, out |-> _cluster_by_amount(items)]
    /\ MachineUnchanged

\* one call, on any of the inputs
NextCluster == call = NoCall /\ \E items \in ClusterInputs : CallClusterByAmount(items)

SpecCluster == InitWith({110}) /\ [][NextCluster]_vars

Clustered == call.fn = "_cluster_by_amount"

\* the clusters of the output that hold the item x
ClustersOf(x) == {k \in 1..Len(call.out) : x \in Range(call.out[k])}

\* C15: two transactions of one vendor group whose amounts differ by at most
\* max(1.0, 0.05 * median amount of the group) are in the same cluster, whatever
\* other amounts the group has.  The walk compares with the running mean of the open
\* cluster, so an amount in between can separate them, and it compares in binary
\* floating point, where 2.14 - 1.14 is more than 1.0: this fails (SpecCluster).
C15_CloseAmountsTogether ==
    Clustered =>
        LET with_amount == SelectSeq(call.arg, HasAmount)
            s == SortInts([i \in 1..Len(with_amount) |-> Val(with_amount[i].amount)])
            mid == Len(s) \div 2
            twice_median == IF Len(s) % 2 = 1 THEN 2 * s[mid + 1] ELSE s[mid] + s[mid + 1]
        IN  \A x, y \in Range(call.arg) :
                (/\ HasAmount(x) /\ HasAmount(y)
                 /\ 40 * Abs(Val(x.amount) - Val(y.amount)) <= Max2(40 * 1000, twice_median))
                => ClustersOf(x) = ClustersOf(y)

WithAmountCount(cluster) == Len(SelectSeq(cluster, HasAmount))

\* C17: the clusters are a partition of the input: every transaction is in exactly one
\* cluster, once, and the clusters hold nothing else; the transactions without amount
\* are together, in a cluster no other cluster outnumbered before they were added, or
\* are the single cluster when no transaction has an amount (SpecCluster).
C17_Partition ==
    Clustered =>
        LET items == call.arg
            out == call.out
            no_amount == {x \in Range(items) : ~HasAmount(x)}
        IN  /\ \A x \in Range(items) :
                   Cardinality({<<k, i>> \in (1..Len(out)) \X (1..Len(items)) :
                                   i <= Len(out[k]) /\ out[k][i] = x}) = 1
            /\ \A k \in 1..Len(out) : Range(out[k]) \subseteq Range(items)
            /\ (no_amount # {} /\ no_amount # Range(items))
               => \E k \in 1..Len(out) :
                      /\ no_amount \subseteq Range(out[k])
                      /\ \A j \in 1..Len(out) :
                             WithAmountCount(out[j]) <= WithAmountCount(out[k])
            /\ no_amount = Range(items) => out = <<items>>

\* the clusterer has put two transactions without amount into the second, larger, of
\* two clusters
C17_Witness ==
    /\ Clustered
    /\ Len(call.out) = 2
    /\ WithAmountCount(call.out[1]) = 1
    /\ WithAmountCount(call.out[2]) = 2
    /\ Len(call.out[2]) = 3

\* the transactions t has read: two of one vendor and currency, at 9.99 and at 12.99
TwoTiers(t) ==
    LET snap == task[t].txsnap IN
    /\ Len(snap) = 2
    /\ GroupKeyOf(snap[1]) = GroupKeyOf(snap[2])
    /\ {snap[1].amount, snap[2].amount} = {Some(9990), Some(12990)}

TierAt(t, a) == CHOOSE x \in Range(task[t].txsnap) : x.amount = Some(a)

\* C16: two transactions of one vendor and currency at 9.99 and 12.99 are two
\* clusters, and the rows the recompute has added are the rows it adds for the one
\* transaction alone followed by the rows it adds for the other alone: each cluster
\* passes the ignore check, the evidence gate and the creation by itself (SpecData).
C16_TiersIndependent ==
    \A t \in TaskIds :
        (HoldsRows(t) /\ TwoTiers(t)) =>
            LET u == task[t].user
                lo == TierAt(t, 9990)
                hi == TierAt(t, 12990)
            IN  /\ _cluster_by_amount(task[t].txsnap) = << <<lo>>, <<hi>> >>
                /\ task[t].pending = RecomputeRows(u, <<lo>>, task[t].keys, today)
                                     \o RecomputeRows(u, <<hi>>, task[t].keys, today)

\* a recompute holds the row of one of the two tiers while the other tier is ignored
C16_Witness ==
    \E t \in TaskIds :
        /\ HoldsRows(t)
        /\ TwoTiers(t)
        /\ task[t].keys # {}
        /\ Len(task[t].pending) = 1

(***************************************************************************)
(* The vendor normaliser taken alone: it is applied to a vendor string,    *)
(* and then to what it has returned.                                       *)
(***************************************************************************)
MaxVendorWords == 3

\* a name in mixed case, a noise token, a lower-case name and digits
VendorWords == {"Netflix", "Bill", "hulu", "42"}

\* what stands between two words, and before the first and after the last
VendorGaps == {<<Blank>>, <<"*">>, <<Blank, "-", Blank>>}

VendorEnds == {<<>>, <<Blank>>, <<"*">>}

RECURSIVE JoinWith(_, _)
JoinWith(parts, gap) ==
    IF parts = <<>> THEN <<>>
    ELSE IF Len(parts) = 1 THEN parts
    ELSE <<Head(parts)>> \o gap \o JoinWith(Tail(parts), gap)

\* up to seven one-letter tokens, the sixth of them a digit
LongVendor == <<"a", "b", "c", "d", "e", "7", "g">>

VendorInputs ==
    {lead \o JoinWith(ws, gap) \o trail :
        ws \in SeqsUpTo(VendorWords, MaxVendorWords), gap \in VendorGaps,
        lead \in VendorEnds, trail \in VendorEnds}
    \cup {JoinWith(SubSeq(LongVendor, 1, n), <<Blank>>) : n \in 1..Len(LongVendor)}

CallNormalizeVendor(v) ==
    /\ call' = [fn |-> "_normalize_vendor", arg |-> v, out |-> _normalize_vendor(v)]
    /\ MachineUnchanged

\* the key that was returned is normalised in its turn
CallNormalizeKey ==
    /\ call.fn = "_normalize_vendor"
    /\ call.out # call.arg
    /\ CallNormalizeVendor(call.out)

NextNormalize ==
    \/ call = NoCall /\ \E v \in VendorInputs : CallNormalizeVendor(v)
    \/ CallNormalizeKey

SpecNormalize == InitWith({110}) /\ [][NextNormalize]_vars

Normalized == call.fn = "_normalize_vendor"

\* C18: normalising what the normaliser returned returns it again.  When every token
\* is dropped the code returns the string it was splitting, blanks and all, and the
\* cap of six tokens can uncover a trailing number: this fails (SpecNormalize).
C18_Idempotent ==
    [][(Normalized /\ Normalized' /\ call'.arg = call.out) => call'.out = call.out]_vars

\* C19: what the normaliser returns is in lower case, has at most 6 tokens with one
\* blank between two of them and nothing else, has no noise token and does not end in
\* a number; it is empty for an empty input.  A string of noise tokens or digits only
\* comes back whole: this fails (SpecNormalize).
C19_KeyShape ==
    Normalized =>
        LET key == call.out
            parts == Split(key)
        IN  /\ Lower(key) = key
            /\ key = Join(parts)
            /\ Len(parts) <= MaxKeyTokens
            /\ \A i \in 1..Len(parts) : parts[i] \notin _NOISE_TOKENS \cup _SEPARATORS
            /\ parts # <<>> => ~IsDigitWord(parts[Len(parts)])
            /\ call.arg = <<>> => key = <<>>

\* the positive gaps between the distinct dates of the transactions M, in date order
PositiveGaps(M) == Gaps(SetToSortedSeq(DatesOf(M)))

\* C20: a Subscription recompute adds carries a cadence only when the distinct dates
\* of its cluster leave at least 2 positive gaps and the median gap is within
\* [7, 400] days.  The code asks for two dates, that is one gap: this fails
\* (SpecCadence).
C20_CadenceNeedsTwoGaps ==
    \A t \in TaskIds :
        HoldsRows(t) =>
            \A r \in PendingRows(t) :
                ~IsNone(r.billing_cycle_days) =>
                    /\ Len(PositiveGaps(Members(t, r))) >= 2
                    /\ Val(r.billing_cycle_days) >= MinGapDays
                    /\ Val(r.billing_cycle_days) <= MaxGapDays

(***************************************************************************)
(* The scorer taken alone, on every combination of what it is given.       *)
(***************************************************************************)
MaxScoreDates == 3

\* 0 to MaxScoreDates dates a month apart
ScoreDates == {[i \in 1..n |-> 10 + 30 * i] : n \in 0..MaxScoreDates}

\* no cadence, a cadence of 0 and one of 30 days; deviations of each band of the
\* scorer; amounts of 9.99 and 22.00 with deviations on both sides of max(0.5, 3%),
\* 0.66 being 3% of 22.00 and more than 22.0 * 0.03 in floats
ScoreInputs ==
    [dates : ScoreDates,
     median_gap : {None, Some(0), Some(30)},
     variability : {None, Some(3), Some(7), Some(8)},
     amount_variability : {None, Some(FOfRatio(1, 2)), Some(FOfRatio(51, 100)), Some(FOfRatio(66, 100))},
     skipped_cycles : {0, 1},
     flagged_count : {0, 2},
     last_date : {None, Some(100)},
     amount_median : {None, Some(FOfRatio(999, 100)), Some(FOfInt(22))}]

CallConfidenceAndReasons(e) ==
    /\ call' = [fn |-> "_confidence_and_reasons", arg |-> e,
                out |-> _confidence_and_reasons(e.dates, e.median_gap, e.variability,
                                                e.amount_variability, e.skipped_cycles,
                                                e.flagged_count, e.last_date, e.amount_median)]
    /\ MachineUnchanged

\* one call, on any of the inputs
NextScore == call = NoCall /\ \E e \in ScoreInputs : CallConfidenceAndReasons(e)

SpecScore == InitWith({110}) /\ [][NextScore]_vars

Scored == call.fn = "_confidence_and_reasons"

\* C21: the confidence the scorer returns is within [0, 1], whatever it is given
\* (SpecScore).
C21_ConfidenceInUnitInterval ==
    Scored => (FLe(FZero, call.out.score) /\ FLe(call.out.score, FOfInt(1)))

\* the scorer was called with every additive factor present: three dates, a cadence
\* with a low deviation, a flagged transaction, a last date, an amount with a low
\* deviation
C21_Witness ==
    /\ Scored
    /\ Len(call.arg.dates) >= 3
    /\ Truthy(call.arg.median_gap)
    /\ call.arg.variability = Some(3)
    /\ call.arg.flagged_count > 0
    /\ ~IsNone(call.arg.last_date)
    /\ ~IsNone(call.arg.amount_median)
    /\ call.arg.amount_variability = Some(FOfRatio(1, 2))
    /\ call.out.score = FOfInt(1)

ZeroEvidence(e) ==
    /\ e.dates = <<>>
    /\ IsNone(e.median_gap)
    /\ IsNone(e.variability)
    /\ IsNone(e.amount_variability)
    /\ e.skipped_cycles = 0
    /\ e.flagged_count = 0
    /\ IsNone(e.last_date)
    /\ IsNone(e.amount_median)

\* C22: called with no evidence at all the scorer returns the score 0 and no reason.
\* The branch for fewer than two dates always adds its reason: this fails (SpecScore).
C22_ZeroEvidence ==
    (Scored /\ ZeroEvidence(call.arg)) =>
        (call.out.score = FZero /\ call.out.reasons = <<>>)

(***************************************************************************)
(* A table with more charges of one vendor than a Subscription keeps as    *)
(* evidence, and its recompute.                                            *)
(***************************************************************************)
MaxTxEvidence == 10

EvidencePatterns == {"up", "down", "zigzag", "pairs", "tiers"}

\* the date of the i-th charge of a table: rising, falling, alternating between
\* early and late, and two by two on the same day
EvidenceDate(pat, i) ==
    CASE pat = "down" -> 105 - 10 * (i - 1)
      [] pat = "zigzag" -> IF i % 2 = 1 THEN 5 + 5 * i ELSE 105 - 5 * i
      [] pat = "pairs" -> 5 + 20 * ((i + 1) \div 2)
      [] OTHER -> 5 + 10 * i

\* one price, or two prices in turn
EvidenceAmount(pat, i) == IF pat = "tiers" /\ i % 2 = 0 THEN 19990 ELSE 11990

EvidenceTables(n) ==
    {[i \in 1..k |-> Extracted(<<"Spotify", "*", "Premium">>, Some(EvidenceAmount(pat, i)),
                              Some(EvidenceDate(pat, i)), TRUE, None, None, RulesConfidence)] :
        k \in 1..n, pat \in EvidencePatterns}

NextEvidence ==
    \/ txs = {} /\ \E es \in EvidenceTables(MaxTxEvidence) : InsertTransactions(1, es, TRUE)
    \/ nruns = 0 /\ RecomputeCall(1, 1, TRUE, MaxRunsExcl)
    \/ \E ord \in SelectTransactions(1) : RecLoad(1, ord)
    \/ RecLoadIgnored(1)
    \/ RecDelete(1)
    \/ RecCommit(1)

SpecEvidence == InitWith({110}) /\ [][NextEvidence]_vars

\* the clusters of the transactions t has read that give the row r
ClustersGiving(t, r) ==
    LET u == task[t].user
        items == SelectSeq(task[t].txsnap, LAMBDA tx : GroupKeyOf(tx) = <<r.meta.vendor_key, tx.currency>>)
        clusters == _cluster_by_amount(items)
    IN  {clusters[k] : k \in {j \in 1..Len(clusters) :
            EvalCluster(u, r.meta.vendor_key, items[1].currency, clusters[j], task[t].keys, today) = Some(r)}}

\* C23: the evidence_tx_ids of a Subscription recompute writes are at most 8 ids,
\* each of a Transaction that exists, is of the same user and is in the cluster of
\* the Subscription, and no transaction of the cluster left out of the list is dated
\* later than one in it (SpecEvidence).
C23_EvidenceIds ==
    /\ \A t \in TaskIds :
           HoldsRows(t) =>
               \A r \in PendingRows(t) :
                   \E c \in ClustersGiving(t, r) :
                       LET ids == Range(r.meta.evidence_tx_ids)
                           inside == {x \in Range(c) : x.id \in ids}
                           outside == Range(c) \ inside
                       IN  /\ ids = {x.id : x \in inside}
                           /\ \A x \in outside, y \in inside :
                                  Val(x.transaction_date) <= Val(y.transaction_date)
    /\ \A s \in subs :
           /\ Len(s.meta.evidence_tx_ids) <= 8
           /\ \A i \in Range(s.meta.evidence_tx_ids) :
                  \E x \in txs : x.id = i /\ x.user_id = s.user_id

\* a Subscription was committed for a cluster of more than 8 transactions, with 8 ids,
\* and a transaction of the cluster is not among them
C23_Witness ==
    \E s \in subs :
        /\ s.meta.count > 8
        /\ Len(s.meta.evidence_tx_ids) = 8
        /\ \E x \in txs : x.user_id = s.user_id /\ x.id \notin Range(s.meta.evidence_tx_ids)

\* C24: a sync task reaches the step that records the sync as completed only from
\* the commit of a recompute for its user.  sync_user skips recompute when the batch
\* created no Transaction, and as the repository stands no batch creates one, so the
\* rows keep the statuses and renewal dates of an earlier day: this fails (SpecData).
C24_SyncRecomputes ==
    [][\A t \in TaskIds :
          (task'[t].kind = "sync" /\ task'[t].pc = "finish" /\ task[t].pc # "finish")
          => task[t].pc = "rec_commit"]_vars

\* one user, one recompute at a time as the engine asks of its caller, and the user's
\* ignore requests at any moment
NextIgnore ==
    \/ \E es \in SeqsUpTo(ExtractedTiers, Room(1, MaxTxTasks)) : InsertTransactions(1, es, TRUE)
    \/ \E t \in TaskIds : RecomputeCall(t, 1, TRUE, MaxRuns)
    \/ \E t \in TaskIds : \E ord \in SelectTransactions(task[t].user) : RecLoad(t, ord)
    \/ \E t \in TaskIds : RecLoadIgnored(t)
    \/ \E t \in TaskIds : RecDelete(t)
    \/ \E t \in TaskIds : RecCommit(t)
    \/ \E t \in TaskIds : \E k \in 0..MaxTxTasks : RecFail(t, k)
    \/ \E t \in TaskIds : RecCommitFail(t)
    \/ \E id \in 1..(MaxRuns * MaxTxTasks) : ignore_subscription(1, id, FALSE)
    \/ delete_account(1, FALSE)

SpecIgnore == InitWith({110}) /\ [][NextIgnore]_vars

\* the rows of the user that were not ignored when the recompute that has just
\* committed read its ignore set, and are ignored now
IgnoredInFlight ==
    {g \in IgnoredOf(op.user) : \E b \in op.pre : b.id = g.id /\ b.status # "ignored"}

\* C25: when a recompute commits, a Subscription the user ignored while it was in
\* flight has no non-ignored Subscription of the same vendor key, amount and currency
\* beside it.  The ignore set was read before the ignore, the DELETE that runs after
\* it spares the row, and the loop adds the cluster again: this fails (SpecIgnore).
C25_IgnoreInFlightKept ==
    op.name = "rec_commit" =>
        \A g \in IgnoredInFlight : \A s \in NonIgnoredOf(op.user) : ~SameIgnoreKey(s, g)

\* C26: a recompute adds no Subscription for a cluster that holds, next to
\* transactions that joined it since, the transactions of a Subscription the user has
\* ignored.  The ignore key carries the median amount, which moves when an amount
\* within the tolerance joins the cluster: this fails (SpecData).
C26_IgnoreSurvivesNewData ==
    \A t \in TaskIds :
        HoldsRows(t) =>
            \A g \in IgnoredOf(task[t].user) : \A r \in PendingRows(t) :
                ~(/\ ClusterOf(g) # {}
                  /\ ClusterOf(g) \subseteq ClusterOf(r)
                  /\ ClusterOf(g) # ClusterOf(r))

(***************************************************************************)
(* The gap statistics taken alone, on the sorted distinct dates of a       *)
(* cluster: the median gap, and then the skipped cycles for a median gap   *)
(* that passed the range check.                                            *)
(***************************************************************************)
MaxGapDates == 4

\* gaps of 7 and 11 days, of a month and two, and of a few days
GapDates == {0, 7, 14, 25, 30, 60, 90, 100}

\* what _date_list returns for a cluster
GapInputs == {SetToSortedSeq(D) : D \in {E \in SUBSET GapDates : Cardinality(E) <= MaxGapDates}}

CallMedianGapDays(dates) ==
    /\ call' = [fn |-> "_median_gap_days", arg |-> dates, out |-> _median_gap_days(dates)]
    /\ MachineUnchanged

\* lines 379-395: the median gap that is within range goes on to the other statistics
CallGapSkippedCycles ==
    /\ call.fn = "_median_gap_days"
    /\ ~IsNone(call.out)
    /\ Val(call.out) >= MinGapDays /\ Val(call.out) <= MaxGapDays
    /\ call' = [fn |-> "_gap_skipped_cycles",
                arg |-> [dates |-> call.arg, median_gap |-> Val(call.out)],
                out |-> _gap_skipped_cycles(call.arg, Val(call.out))]
    /\ MachineUnchanged

NextGaps ==
    \/ call = NoCall /\ \E dates \in GapInputs : CallMedianGapDays(dates)
    \/ CallGapSkippedCycles

SpecGaps == InitWith({110}) /\ [][NextGaps]_vars

\* C27: for two or more distinct dates the median gap is the median of the gaps
\* between consecutive dates: the middle one of an odd number of gaps, the mean of the
\* two middle ones of an even number.  The code takes the upper of the two middle
\* gaps: this fails (SpecGaps).
C27_MedianOfGaps ==
    (call.fn = "_median_gap_days" /\ Len(call.arg) >= 2) =>
        LET s == SortInts(Gaps(call.arg))
            mid == Len(s) \div 2
        IN  /\ ~IsNone(call.out)
            /\ IF Len(s) % 2 = 1 THEN Val(call.out) = s[mid + 1]
               ELSE 2 * Val(call.out) = s[mid] + s[mid + 1]

\* C28: skipped_cycles is the number of gaps g between consecutive dates with
\* g > 1.5 * median_gap_days, that is 2 * g > 3 * median_gap_days, for odd and even
\* median gaps (SpecGaps).
C28_SkippedCyclesExact ==
    call.fn = "_gap_skipped_cycles" =>
        LET gaps == Gaps(call.arg.dates) IN
        call.out = Cardinality({i \in 1..Len(gaps) : 2 * gaps[i] > 3 * call.arg.median_gap})

\* the median gap is odd and one gap is the first whole number above 1.5 times it,
\* which counts as a skipped cycle
C28_Witness ==
    /\ call.fn = "_gap_skipped_cycles"
    /\ call.arg.median_gap % 2 = 1
    /\ LET gaps == Gaps(call.arg.dates) IN
       \E i \in 1..Len(gaps) : 2 * gaps[i] = 3 * call.arg.median_gap + 1
    /\ call.out >= 1

(***************************************************************************)
(* The sync jobs of one user as GET /sync/status sees them                 *)
(* (routers/sync.py 16-92, tasks.py 429-448 and 858-912).  POST /sync      *)
(* hands the task to the broker before it commits its sync_queued row, so  *)
(* the two are separate steps.  db.commit() with a new AuditLog row in the *)
(* session sends the INSERT, which takes the id of the row, and then the   *)
(* COMMIT, which lets the other sessions see it: two steps again.          *)
(***************************************************************************)
LogRow(action, j) == [action |-> action, job |-> j, committed |-> FALSE]

\* the COMMIT of the session that inserted the row of this action for job j
CommitRow(action, j) ==
    [i \in 1..Len(audit.logs) |->
        IF audit.logs[i].action = action /\ audit.logs[i].job = j
        THEN [audit.logs[i] EXCEPT !.committed = TRUE]
        ELSE audit.logs[i]]

\* routers/sync.py 22-30: sync_user.delay(...)
start_sync_delay(j) ==
    /\ audit.api[j] = "none"
    /\ j > 1 => audit.api[j - 1] # "none"
    /\ audit' = [audit EXCEPT !.api[j] = "delayed", !.run[j] = "queued", !.report = "none"]
    /\ EngineUnchanged /\ UNCHANGED <<call, emails_raw>>

\* routers/sync.py 32-44: the INSERT of the sync_queued row, sent by db.commit()
start_sync_insert(j) ==
    /\ audit.api[j] = "delayed"
    /\ audit' = [audit EXCEPT !.api[j] = "inserted",
                              !.logs = Append(audit.logs, LogRow("sync_queued", j)),
                              !.report = "none"]
    /\ EngineUnchanged /\ UNCHANGED <<call, emails_raw>>

\* routers/sync.py 44-46: the COMMIT of the sync_queued row
start_sync_commit(j) ==
    /\ audit.api[j] = "inserted"
    /\ audit' = [audit EXCEPT !.api[j] = "logged",
                              !.logs = CommitRow("sync_queued", j),
                              !.report = "none"]
    /\ EngineUnchanged /\ UNCHANGED <<call, emails_raw>>

\* tasks.py 429-448: a worker takes the task
SyncUserRuns(j) ==
    /\ audit.run[j] = "queued"
    /\ audit' = [audit EXCEPT !.run[j] = "in_progress", !.report = "none"]
    /\ EngineUnchanged /\ UNCHANGED <<call, emails_raw>>

\* tasks.py 858-888: the end of a successful run, up to the INSERT of its sync_complete
\* row, sent by the db.commit() of line 888
SyncUserInserts(j) ==
    /\ audit.run[j] = "in_progress"
    /\ audit' = [audit EXCEPT !.run[j] = "completing",
                              !.logs = Append(audit.logs, LogRow("sync_complete", j)),
                              !.report = "none"]
    /\ EngineUnchanged /\ UNCHANGED <<call, emails_raw>>

\* tasks.py 888-896: the COMMIT of the sync_complete row
SyncUserCompletes(j) ==
    /\ audit.run[j] = "completing"
    /\ audit' = [audit EXCEPT !.run[j] = "completed",
                              !.logs = CommitRow("sync_complete", j),
                              !.report = "none"]
    /\ EngineUnchanged /\ UNCHANGED <<call, emails_raw>>

\* tasks.py 437-438 and 897-912: the run returns 'account not found', or it fails; the
\* handler writes no AuditLog row, and a sync_complete row that was inserted and not
\* committed is rolled back
SyncUserFails(j) ==
    /\ audit.run[j] \in {"in_progress", "completing"}
    /\ audit' = [audit EXCEPT !.run[j] = "failed", !.report = "none"]
    /\ EngineUnchanged /\ UNCHANGED <<call, emails_raw>>

\* the highest id of a committed row with this action, 0 when there is none
LastLog(action) ==
    LET ids == {i \in 1..Len(audit.logs) :
                   audit.logs[i].action = action /\ audit.logs[i].committed}
    IN  IF ids = {} THEN 0 ELSE CHOOSE i \in ids : \A o \in ids : o <= i

\* routers/sync.py 83-86, on the two rows the route has read
Queued(last_queued, last_complete) ==
    last_queued > 0 /\ (last_complete = 0 \/ last_queued > last_complete)

\* GET /sync/status, its first statement (routers/sync.py 59-66): the SELECT of the
\* account, which is there.  The statements of the route are sent one by one, each
\* sees what is committed when it runs, and other sessions commit between them
sync_status_account ==
    /\ audit.get = "idle"
    /\ audit' = [audit EXCEPT !.get = "account", !.last_queued = 0, !.report = "none"]
    /\ EngineUnchanged /\ UNCHANGED <<call, emails_raw>>

\* routers/sync.py 69-74: the SELECT of the last sync_queued row
sync_status_last_queued ==
    /\ audit.get = "account"
    /\ audit' = [audit EXCEPT !.get = "queued", !.last_queued = LastLog("sync_queued")]
    /\ EngineUnchanged /\ UNCHANGED <<call, emails_raw>>

\* routers/sync.py 76-92: the SELECT of the last sync_complete row, and the answer
sync_status_last_complete ==
    /\ audit.get = "queued"
    /\ audit' = [audit EXCEPT
                    !.get = "idle", !.last_queued = 0,
                    !.report = IF Queued(audit.last_queued, LastLog("sync_complete"))
                               THEN "queued" ELSE "not_queued"]
    /\ EngineUnchanged /\ UNCHANGED <<call, emails_raw>>

NextStatus ==
    \/ \E j \in Jobs : start_sync_delay(j)
    \/ \E j \in Jobs : start_sync_insert(j)
    \/ \E j \in Jobs : start_sync_commit(j)
    \/ \E j \in Jobs : SyncUserRuns(j)
    \/ \E j \in Jobs : SyncUserInserts(j)
    \/ \E j \in Jobs : SyncUserCompletes(j)
    \/ \E j \in Jobs : SyncUserFails(j)
    \/ sync_status_account
    \/ sync_status_last_queued
    \/ sync_status_last_complete

SpecStatus == InitWith({110}) /\ [][NextStatus]_vars

\* the jobs POST /sync has handed over, and the last of them
QueuedJobs == {j \in Jobs : audit.api[j] # "none"}

LatestJob == CHOOSE j \in QueuedJobs : \A o \in QueuedJobs : o <= j

\* C30: what GET /sync/status has just answered is true: not queued when the job
\* queued last has finished, by completing or by failing, and queued while a job
\* handed to the broker has not finished.  A failed run writes no sync_complete row,
\* and the sync_queued row is committed after the task was handed over: this fails
\* (SpecStatus).
C30_StatusTruthful ==
    audit.report # "none" =>
        /\ (QueuedJobs # {} /\ audit.run[LatestJob] \in {"completed", "failed"})
           => audit.report = "not_queued"
        /\ (\E j \in Jobs : audit.run[j] \in {"queued", "in_progress", "completing"})
           => audit.report = "queued"

====
